---- MODULE Spec2Model ----
(***************************************************************************)
(* Publican static site generator: the content build pipeline              *)
(* (addContent, addTemplate, #render with hash-gated writes) and the       *)
(* watch-mode rebuild loop (#watcher: wait / reRender).                    *)
(*                                                                         *)
(* Paths are sequences of segments.  File texts are abstract records that  *)
(* keep what the pipeline reads from them: the front-matter slug and       *)
(* publish values, a body identifier, the slugs whose contentRendered the  *)
(* body's expressions read, and whether an expression is malformed.        *)
(***************************************************************************)
EXTENDS Integers, Sequences, FiniteSets, TLC

\* ------------------------------------------------------------------ bounds
MaxCalls == 4          \* API calls made by the caller in Spec
MaxNotify == 3         \* change notifications delivered in WatchSpec
WatchDebounce == 2     \* config.watchDebounce, in clock ticks

\* ------------------------------------------------------------- JS values
Undefined == <<>>      \* undefined / '' for rendered strings and hashes

Range(s) == { s[i] : i \in DOMAIN s }

\* ------------------------------------------------------------ file texts
\* a file text; def = FALSE is the value undefined (file could not be read)
Text(slug, publish, body, refs, bad) ==
  [def |-> TRUE, slug |-> slug, publish |-> publish, body |-> body,
   refs |-> refs, bad |-> bad, index |-> "", tags |-> <<>>]

NoText ==
  [def |-> FALSE, slug |-> <<>>, publish |-> "", body |-> 0,
   refs |-> <<>>, bad |-> FALSE, index |-> "", tags |-> <<>>]

\* a text whose front matter also has an index value and a list of tags (the
\* tags value split at its commas and trimmed)
FrontMatter(t, index, tags) == [t EXCEPT !.index = index, !.tags = tags]

Plain(body) == Text(<<>>, "", body, <<>>, FALSE)

\* --------------------------------------------------------------- filenames
\* a filename: directory segments, base name and extension
Filename(dir, name, ext) == [dir |-> dir, name |-> name, ext |-> ext]

NoFile == Filename(<<>>, "", "")

F_a_md   == Filename(<<>>, "a", "md")
F_a_html == Filename(<<>>, "a", "html")
F_b_p    == Filename(<<"b">>, "p", "md")
F_up     == Filename(<<"..">>, "x", "md")

\* slugs used by the sample texts
S_a   == <<"a", "index.html">>
S_bp  == <<"b", "p", "index.html">>
S_out == <<"..", "x", "index.html">>

\* ------------------------------------------------------------------- paths
\* node:path normalize on a relative path: '.' dropped, 'seg/..' cancelled,
\* leading '..' kept
RECURSIVE NormalizeFrom(_, _, _)
NormalizeFrom(p, i, acc) ==
  IF i > Len(p) THEN acc
  ELSE IF p[i] = "." THEN NormalizeFrom(p, i + 1, acc)
  ELSE IF p[i] = ".." /\ Len(acc) > 0 /\ acc[Len(acc)] # ".."
       THEN NormalizeFrom(p, i + 1, SubSeq(acc, 1, Len(acc) - 1))
  ELSE NormalizeFrom(p, i + 1, Append(acc, p[i]))

\* node:path join(a, b) for relative paths
join(a, b) == NormalizeFrom(a \o b, 1, <<>>)

\* node:path join('/', p): '..' cannot climb above the root
RECURSIVE NormalizeAbs(_, _, _)
NormalizeAbs(p, i, acc) ==
  IF i > Len(p) THEN acc
  ELSE IF p[i] = "." THEN NormalizeAbs(p, i + 1, acc)
  ELSE IF p[i] = ".."
       THEN NormalizeAbs(p, i + 1,
              IF Len(acc) > 0 THEN SubSeq(acc, 1, Len(acc) - 1) ELSE acc)
  ELSE NormalizeAbs(p, i + 1, Append(acc, p[i]))

joinRoot(p) == NormalizeAbs(p, 1, <<>>)

\* config.dir.build
buildDir == <<"build">>

\* a normalized relative path lies inside the build root
InsideBuild(p) == Len(p) > Len(buildDir) /\ SubSeq(p, 1, Len(buildDir)) = buildDir

\* ----------------------------------------------------------------- slugify
\* lib slugify for a lower-case filename without stripped characters
slugify(fn) ==
  IF fn.ext \in {"html", "md"}
  THEN fn.dir \o (IF fn.name = "index" THEN <<>> ELSE <<fn.name>>) \o <<"index.html">>
  ELSE fn.dir \o <<fn.name \o "." \o fn.ext>>

\* filename.includes('..')
IncludesParentRefNever(fn) == FALSE
IncludesParentRef(fn) == ".." \in Range(fn.dir) \/ fn.name = ".."

\* dirname(slug).replace(/\/.*$/, ''): first segment of the slug's directory
Directory(slug) == IF Len(slug) > 1 THEN slug[1] ELSE "."

\* slug.endsWith('.html'): the html file name of the slugs used here
EndsWithHtml(slug) == Len(slug) > 0 /\ slug[Len(slug)] = "index.html"

\* link === '/': join(root, slug) with index.html removed is the root
LinkIsRoot(slug) == joinRoot(slug) = <<"index.html">>

\* #isDev: process.env.NODE_ENV === 'development', fixed at construction
VARIABLE isDev

\* #now = new Date(), fixed at construction
now == 0

\* ------------------------------------------------------------ ordered maps
\* a JS Map kept in insertion order: a sequence of records with a key field k
MapHas(m, k) == \E i \in DOMAIN m : m[i].k = k
MapIdx(m, k) == CHOOSE i \in DOMAIN m : m[i].k = k
MapSet(m, k, v) ==
  IF MapHas(m, k)
  THEN [m EXCEPT ![MapIdx(m, k)] = [k |-> k, v |-> v]]
  ELSE Append(m, [k |-> k, v |-> v])
MapDelete(m, k) ==
  IF MapHas(m, k)
  THEN SubSeq(m, 1, MapIdx(m, k) - 1) \o SubSeq(m, MapIdx(m, k) + 1, Len(m))
  ELSE m
MapKeys(m) == { m[i].k : i \in DOMAIN m }

\* -------------------------------------------------------------- addContent
\* new Date(p) for the publish values used here; any other string is an
\* Invalid Date, which compares false with every date
DateOf == [p \in {"2000-01-01", "2999-01-01"} |->
             IF p = "2000-01-01" THEN now - 1 ELSE now + 1]

\* this.#now < new Date(p)
NowBefore(p) == p \in DOMAIN DateOf /\ now < DateOf[p]

\* p === 'draft' || p === 'false' || this.#now < new Date(p)
HeldBackNever(p) == FALSE
HeldBack(p) == p = "draft" \/ p = "false" \/ NowBefore(p)

\* String.prototype.toLowerCase on the words used here
toLowerCase(str) ==
  IF str = "JS" THEN "js" ELSE IF str = "MD" THEN "md" ELSE str

\* lib normalize on a tag name of letters: its lower-case form
normalize(str) == toLowerCase(str)

\* [...new Set(list)]: first occurrences, in order
RECURSIVE Dedupe(_, _, _)
Dedupe(list, i, acc) ==
  IF i > Len(list) THEN acc
  ELSE Dedupe(list, i + 1,
              IF list[i] \in Range(acc) THEN acc ELSE Append(acc, list[i]))

\* config.tagPages.root
tagPagesRoot == <<"tag">>

\* the tag information { tag, ref, slug } of a tag name
TagInfo(tag) ==
  [tag |-> tag, ref |-> normalize(tag),
   slug |-> join(tagPagesRoot, <<normalize(tag)>>) \o <<"index.html">>]

\* the record built by addContent from a filename and a file text
fInfo(filename, content) ==
  LET slug == IF content.slug # <<>> THEN content.slug ELSE slugify(filename)
      tags == Dedupe(content.tags, 1, <<>>)
  IN [filename |-> filename,
      slug |-> slug,
      directory |-> Directory(slug),
      tags |-> [j \in DOMAIN tags |-> TagInfo(tags[j])],
      publish |-> IF content.publish = "" THEN "undefined"
                  ELSE IF isDev \/ ~HeldBack(content.publish)
                       THEN "true" ELSE "false",
      index |-> IF content.index = "" THEN "monthly" ELSE content.index,
      isHTML |-> EndsWithHtml(slug),
      body |-> content.body,
      refs |-> content.refs,
      bad |-> content.bad,
      priority |-> 1,
      date |-> now,
      renderPriority |-> IF content.refs # <<>> THEN -2 ELSE 0,
      contentRendered |-> Undefined]

\* addContent(filename, content): result map and whether it threw
addContent(cm, filename, content) ==
  IF IncludesParentRef(filename) THEN [map |-> cm, threw |-> TRUE]
  ELSE IF ~content.def THEN [map |-> MapDelete(cm, filename), threw |-> FALSE]
  ELSE [map |-> MapSet(cm, filename, fInfo(filename, content)), threw |-> FALSE]

\* -------------------------------------------------------------- addTemplate
TemplateNames == {"default.html", "list.html"}

\* addTemplate(filename, content): templateMap.delete or templateMap.set
addTemplate(tm, filename, content) == (filename :> content) @@ tm

\* ------------------------------------------------------------------ #render
defaultHTMLTemplate == "default.html"
dirPagesTemplate == "list.html"
dirPagesSize == 24
dirPagesSortDir == -1
tagPagesTemplate == "list.html"
tagPagesSize == 24
tagPagesSortDir == -1

MapGet(m, k) == m[MapIdx(m, k)].v

\* a keyed JS Map whose order is never observed: a function on its keys
EmptyMap == [x \in {} |-> Undefined]
Put(m, k, v) == (k :> v) @@ m
Get(m, k) == IF k \in DOMAIN m THEN m[k] ELSE Undefined

\* idCount[id] || 0
CountOf(m, k) == IF k \in DOMAIN m THEN m[k] ELSE 0

\* no pagination: the record is not a synthesized listing record
NoPagination ==
  [pageTotal |-> 0, pageCurrent |-> 0, pageCurrent1 |-> 0,
   subpageFrom1 |-> 0, subpageTo1 |-> 0,
   hrefBack |-> <<"">>, hrefNext |-> <<"">>, href |-> <<>>]

\* the object stored in tacs.all for a content record: the record itself
RecordEntry(data) ==
  [slug |-> data.slug, src |-> data.filename, fresh |-> FALSE,
   body |-> data.body, refs |-> data.refs, bad |-> data.bad,
   renderPriority |-> data.renderPriority, isHTML |-> data.isHTML,
   template |-> "", page |-> <<>>, contentRendered |-> data.contentRendered,
   name |-> "", childPageTotal |-> 0, pagination |-> NoPagination]

\* `if (data.publish === false) return`
IsDraft(data) == data.publish = "false"

\* data.tags.forEach(t => ... tacs.tag.set(t.ref, tagSet))
RECURSIVE AddToTags(_, _, _)
AddToTags(tag, data, j) ==
  IF j > Len(data.tags) THEN tag
  ELSE LET ref == data.tags[j].ref
           tagSet == IF MapHas(tag, ref) THEN MapGet(tag, ref) ELSE <<>>
       IN AddToTags(MapSet(tag, ref, Append(tagSet, data)), data, j + 1)

\* `handle directories`: the record goes into the list of its directory
InDirectoryListAlways(data) == TRUE
InDirectoryList(data) ==
  /\ ~LinkIsRoot(data.slug)
  /\ data.slug # <<data.directory, "index.html">>
  /\ data.index # "false"

\* initial pass: contentMap.forEach filling tacs.dir, tacs.tag and tacs.all
RECURSIVE InitialPass(_, _, _, _, _)
InitialPass(cm, i, all, dir, tag) ==
  IF i > Len(cm) THEN [all |-> all, dir |-> dir, tag |-> tag]
  ELSE
    LET data == cm[i].v
        d == data.directory
        inDir == InDirectoryList(data)
        dirSet == IF MapHas(dir, d) THEN MapGet(dir, d) ELSE <<>>
    IN IF IsDraft(data) THEN InitialPass(cm, i + 1, all, dir, tag)
       ELSE InitialPass(cm, i + 1,
              MapSet(all, data.slug, RecordEntry(data)),
              IF inDir THEN MapSet(dir, d, Append(dirSet, data)) ELSE dir,
              AddToTags(tag, data, 1))

\* list.sort comparator of the directory pages: factor, then date
DirCompare(a, b) ==
  LET s == dirPagesSortDir * (a.priority - b.priority)
  IN IF s # 0 THEN s ELSE b.date - a.date

\* list.sort comparator of the tag pages: sD * (a.date - b.date)
TagCompare(a, b) == tagPagesSortDir * (a.date - b.date)

\* tacs.tagList.sort comparator: b.count - a.count
CountCompare(a, b) == b.count - a.count

\* the comparator handed to list.sort for the lists of tacs.dir or tacs.tag,
\* or for tacs.tagList
Compare(of, a, b) ==
  IF of = "dir" THEN DirCompare(a, b)
  ELSE IF of = "tag" THEN TagCompare(a, b)
  ELSE CountCompare(a, b)

\* Array.prototype.sort (stable): insert x after the last element not greater
RECURSIVE InsertSorted(_, _, _, _)
InsertSorted(list, x, i, of) ==
  IF i > Len(list) THEN Append(list, x)
  ELSE IF Compare(of, list[i], x) > 0
       THEN SubSeq(list, 1, i - 1) \o <<x>> \o SubSeq(list, i, Len(list))
       ELSE InsertSorted(list, x, i + 1, of)

RECURSIVE SortList(_, _, _, _)
SortList(list, i, acc, of) ==
  IF i > Len(list) THEN acc
  ELSE SortList(list, i + 1, InsertSorted(acc, list[i], 1, of), of)

\* lib chunk(array, chunkSize)
RECURSIVE chunk(_, _)
chunk(array, chunkSize) ==
  IF chunkSize <= 0 \/ Len(array) = 0 THEN <<>>
  ELSE IF Len(array) <= chunkSize THEN <<array>>
  ELSE <<SubSeq(array, 1, chunkSize)>>
       \o chunk(SubSeq(array, chunkSize + 1, Len(array)), chunkSize)

\* String(p ? p : '') as a path segment
PageSeg(p) == IF p = 0 THEN <<>> ELSE <<ToString(p)>>

\* Math.min
Min(a, b) == IF a < b THEN a ELSE b

\* pagination.page of page p: pageItem[p]
pageOfFirst(pageItem, p) == pageItem[1]
pageOf(pageItem, p) == pageItem[p + 1]

\* null as the value of a link (no path joined has an empty segment)
Null == <<"">>

\* join(this.config.root, root, name, String(idx ? idx : ''), '/'): the
\* segments of the directory URL of page idx, config.root being '/'
pageHref(root, name, idx) == joinRoot(root \o <<name>> \o PageSeg(idx))

\* hrefBack: p > 0 ? join(this.config.root, root, name, String(p > 1 ? p-1 :
\* ''), '/') : null
hrefBackNumbered(root, name, p) ==
  IF p > 0 THEN joinRoot(root \o <<name, ToString(p - 1)>>) ELSE Null
hrefBack(root, name, p) ==
  IF p > 0 THEN joinRoot(root \o <<name>> \o (IF p > 1 THEN <<ToString(p - 1)>> ELSE <<>>))
  ELSE Null

\* hrefNext: p+1 < pageTotal ? join(this.config.root, root, name,
\* String(p+1), '/') : null
hrefNext(root, name, p, pageTotal) ==
  IF p + 1 < pageTotal THEN joinRoot(root \o <<name, ToString(p + 1)>>)
  ELSE Null

\* href: Array(pageTotal).fill(null).map((e, idx) => join(...))
href(root, name, pageTotal) ==
  [k \in 1..pageTotal |-> pageHref(root, name, k - 1)]

\* the listing record synthesized by #paginate for page p of a group; the
\* records of pagination.page are held by their slugs
PageRecord(root, name, pageItem, p, size, template, childPageTotal) ==
  [slug |-> join(root \o <<name>> \o PageSeg(p), <<"index.html">>),
   src |-> NoFile, fresh |-> TRUE,
   body |-> 0, refs |-> <<>>, bad |-> FALSE,
   renderPriority |-> -1, isHTML |-> FALSE,
   template |-> template,
   page |-> [j \in DOMAIN pageOf(pageItem, p) |-> pageOf(pageItem, p)[j].slug],
   contentRendered |-> Undefined,
   name |-> name, childPageTotal |-> childPageTotal,
   pagination |->
     [pageTotal |-> Len(pageItem), pageCurrent |-> p, pageCurrent1 |-> p + 1,
      subpageFrom1 |-> p * size + 1,
      subpageTo1 |-> Min(childPageTotal, (p + 1) * size),
      hrefBack |-> hrefBack(root, name, p),
      hrefNext |-> hrefNext(root, name, p, Len(pageItem)),
      href |-> href(root, name, Len(pageItem))]]

\* for (let p = 0; p < pageTotal; p++) pages.set(slug, {...})
RECURSIVE PaginateGroup(_, _, _, _, _, _, _)
PaginateGroup(root, name, list, pageItem, p, size, template) ==
  IF p >= Len(pageItem) THEN <<>>
  ELSE <<PageRecord(root, name, pageItem, p, size, template, Len(list))>>
       \o PaginateGroup(root, name, list, pageItem, p + 1, size, template)

\* pages.set for every record of a list of listing records
RECURSIVE SetAll(_, _, _)
SetAll(pages, recs, i) ==
  IF i > Len(recs) THEN pages
  ELSE SetAll(MapSet(pages, recs[i].slug, recs[i]), recs, i + 1)

\* #paginate(map, size, root, template) for a positive size: the Map of
\* listing records, by slug
RECURSIVE paginateFrom(_, _, _, _, _, _)
paginateFrom(map, i, pages, size, root, template) ==
  IF i > Len(map) THEN pages
  ELSE IF Len(map[i].v) = 0 THEN paginateFrom(map, i + 1, pages, size, root, template)
  ELSE paginateFrom(map, i + 1,
         SetAll(pages,
                PaginateGroup(root, map[i].k, map[i].v,
                              chunk(map[i].v, size), 0, size, template), 1),
         size, root, template)

paginate(map, size, root, template) ==
  paginateFrom(map, 1, <<>>, size, root, template)

\* Object.assign(fInfo, tacs.all.get(slug) || {}): the record's own
\* properties override the listing record's; the result is a new object
Assign(page, all) ==
  IF MapHas(all, page.slug)
  THEN LET r == MapGet(all, page.slug)
       IN [page EXCEPT !.src = r.src, !.body = r.body, !.refs = r.refs,
                       !.bad = r.bad, !.renderPriority = r.renderPriority,
                       !.isHTML = r.isHTML,
                       !.contentRendered = r.contentRendered,
                       !.template = IF r.template # "" THEN r.template ELSE @,
                       !.page = IF r.page # <<>> THEN r.page ELSE @,
                       !.name = IF r.name # "" THEN r.name ELSE @,
                       !.childPageTotal =
                          IF r.name # "" THEN r.childPageTotal ELSE @,
                       !.pagination =
                          IF r.name # "" THEN r.pagination ELSE @]
  ELSE page

\* #paginate(...).forEach((fInfo, slug) => tacs.all.set(slug, Object.assign(...)))
RECURSIVE Paginate(_, _, _)
Paginate(pages, i, all) ==
  IF i > Len(pages) THEN all
  ELSE Paginate(pages, i + 1,
                MapSet(all, pages[i].k, Assign(pages[i].v, all)))

\* tacs.dir after the sort of every list
SortedDir(dir) ==
  [i \in DOMAIN dir |->
     [k |-> dir[i].k, v |-> SortList(dir[i].v, 1, <<>>, "dir")]]

\* tacs.tag after the sort of every list
SortedTag(tag) ==
  [i \in DOMAIN tag |->
     [k |-> tag[i].k, v |-> SortList(tag[i].v, 1, <<>>, "tag")]]

\* list[0].tags.find(t => t.ref === ref)
FindTag(tags, ref) ==
  tags[CHOOSE j \in DOMAIN tags :
         tags[j].ref = ref /\ \A k \in 1..(j - 1) : tags[k].ref # ref]

\* tacs.tagList: one entry per list of tacs.tag with count: list.length,
\* sorted by frequency
tagList(tag) ==
  SortList([i \in DOMAIN tag |->
              LET t == FindTag(tag[i].v[1].tags, tag[i].k)
              IN [tag |-> t.tag, ref |-> tag[i].k, slug |-> t.slug,
                  count |-> Len(tag[i].v)]],
           1, <<>>, "tagList")

\* tacs.all, tacs.dir and tacs.tag as built before the render loop
Aggregate(cm) ==
  LET ip == InitialPass(cm, 1, <<>>, <<>>, <<>>)
      dir == SortedDir(ip.dir)
      tag == SortedTag(ip.tag)
      dirPages == paginate(dir, dirPagesSize, <<>>, dirPagesTemplate)
      tagPages == paginate(tag, tagPagesSize, tagPagesRoot, tagPagesTemplate)
      withDir == Paginate(dirPages, 1, ip.all)
  IN [all |-> Paginate(tagPages, 1, withDir), dir |-> dir, tag |-> tag,
      tagList |-> tagList(tag)]

\* Array.from(tacs.all).sort((a, b) => b.renderPriority - a.renderPriority):
\* positions of tacs.all in render order (the sort is stable)
WithPriority(all, pr) ==
  LET idx == [i \in DOMAIN all |-> i]
      Is(i) == all[i].v.renderPriority = pr
  IN SelectSeq(idx, Is)

\* the order of tacs.all itself, were the array not sorted
allInMapOrder(all) == [i \in DOMAIN all |-> i]

allByPriority(all) ==
  WithPriority(all, 0) \o WithPriority(all, -1) \o WithPriority(all, -2)

\* lib strHash: sha1 digest, taken as collision free
strHashConstant(content) == <<0>>
strHash(content) == <<content>>

\* the part of the render loop body that produces a record's output:
\* templateParse of the content, contentRendered, templateParse of the template
RenderOne(e, all, tm) ==
  LET seen == [j \in DOMAIN e.refs |->
                 IF MapHas(all, e.refs[j])
                 THEN MapGet(all, e.refs[j]).contentRendered ELSE Undefined]
      content == <<e.body, seen>>
      useTemplate == IF e.template # "" THEN e.template
                     ELSE IF e.isHTML THEN defaultHTMLTemplate ELSE ""
      tpl == IF useTemplate = "" THEN NoText ELSE tm[useTemplate]
  IN [threw |-> e.bad \/ (tpl.def /\ tpl.bad),
      contentRendered |-> content,
      out |-> IF useTemplate = "" THEN <<0, content, <<>>>>
              ELSE IF ~tpl.def THEN Undefined
              ELSE <<tpl.body, content, e.page>>]

\* hash check: this.#writeHash.get(slug) !== hash
HashDiffersAlways(wh, slug, hash) == TRUE
HashDiffers(wh, slug, hash) == Get(wh, slug) # hash

\* allByPriority.forEach(...): st carries tacs.all, #contentMap, #writeHash,
\* the write list and every output of the pass
RECURSIVE RenderLoop(_, _, _, _)
RenderLoop(order, n, st, tm) ==
  IF n > Len(order) THEN st
  ELSE
    LET i == order[n]
        e == st.all[i].v
        r == RenderOne(e, st.all, tm)
        hash == strHash(r.out)
        differs == HashDiffers(st.writeHash, e.slug, hash)
    IN IF r.threw THEN [st EXCEPT !.threw = TRUE]
       ELSE RenderLoop(order, n + 1,
              [st EXCEPT
                 !.all[i].v.contentRendered = r.contentRendered,
                 !.cm = IF e.fresh THEN @
                        ELSE [@ EXCEPT ![MapIdx(@, e.src)].v.contentRendered =
                                           r.contentRendered],
                 !.writeHash = IF differs THEN Put(@, e.slug, hash) ELSE @,
                 !.write = IF differs
                           THEN Append(@, [slug |-> e.slug, content |-> r.out])
                           ELSE @,
                 !.out = Put(@, e.slug, r.out),
                 !.order = Append(@, e.slug)],
              tm)

\* #render up to the file writes
Render(cm, tm, wh) ==
  LET agg == Aggregate(cm)
  IN RenderLoop(allByPriority(agg.all), 1,
       [all |-> agg.all, dir |-> agg.dir, tag |-> agg.tag,
        tagList |-> agg.tagList, cm |-> cm,
        writeHash |-> wh,
        write |-> <<>>, out |-> EmptyMap, order |-> <<>>,
        threw |-> FALSE], tm)

\* write files: writeFile(join(config.dir.build, f.slug), f.content)
RECURSIVE WriteFiles(_, _, _)
WriteFiles(d, write, i) ==
  IF i > Len(write) THEN d
  ELSE WriteFiles(Put(d, join(buildDir, write[i].slug), write[i].content),
                  write, i + 1)

\* ---------------------------------------------------------------- the state
VARIABLES
  contentMap,    \* #contentMap: ordered map filename -> record
  templateMap,   \* templateMap: template name -> text (NoText when absent)
  writeHash,     \* #writeHash: slug -> hash of the content last flagged
  disk,          \* files written so far: normalized path -> content
  tacs,          \* the site aggregate of the latest render pass
  calls,         \* number of API calls made so far
  call,          \* the latest API call and its outcome
  pass,          \* summary of the latest render pass
  prev,          \* summary of the render pass before it
  edits,         \* addContent / addTemplate calls since the latest pass
  contentDir,    \* files of config.dir.content: filename -> text
  templateDir,   \* files of config.dir.template: template name -> text
  content,       \* #watcher: pending set of changed content filenames
  template,      \* #watcher: pending set of changed template filenames
  timer,         \* #watchDebounce: ticks left on the timeout, -1 when none
  reRendering,   \* #reRendering
  runs,          \* reRender invocations that are past the guard
  failed,        \* a reRender invocation was rejected by a render error
  clock,         \* counters and records of what the watcher has done
  source,        \* the text last stored by addContent under each filename
  lib            \* a library function call: its name, argument and result

apiVars == <<contentMap, templateMap, writeHash, disk, tacs>>
histVars == <<calls, call, pass, prev, edits>>
watchVars == <<contentDir, templateDir, content, template, timer, reRendering,
               runs, failed, clock>>
libVars == <<isDev, source, lib>>
vars == <<apiVars, histVars, watchVars, libVars>>

\* inputs of the API calls: (filename, text) pairs and (template, text) pairs
T_plain1 == Plain(1)
T_plain2 == Plain(2)
T_slugOut == Text(S_out, "", 1, <<>>, FALSE)
T_refA == Text(<<>>, "", 1, <<S_a>>, FALSE)
T_draft == Text(<<>>, "draft", 1, <<>>, FALSE)
T_bad == Text(<<>>, "", 1, <<>>, TRUE)

ContentInputs ==
  ({F_a_md} \X {T_plain1, T_plain2, T_refA, T_draft, NoText})
  \cup ({F_a_html} \X {T_plain1, T_slugOut, NoText})
  \cup ({F_b_p} \X {T_plain1, T_refA, T_bad, NoText})
  \cup ({F_up} \X {T_plain1, NoText})

TemplateInputs ==
  ({"default.html"} \X {T_plain2, NoText}) \cup ({"list.html"} \X {T_plain2})

NoPass == [n |-> 0, ok |-> FALSE, written |-> <<>>, out |-> EmptyMap,
           src |-> EmptyMap, since |-> <<>>, order |-> <<>>]

\* no library function has been called
NoLib == [fn |-> "", arg |-> <<>>, ret |-> <<>>, done |-> FALSE]

NoCall == [op |-> "", fn |-> NoFile, def |-> FALSE, threw |-> FALSE]

\* a template file name as a file of a directory
TemplateFile(name) ==
  IF name = "default.html" THEN Filename(<<>>, "default", "html")
  ELSE IF name = "list.html" THEN Filename(<<>>, "list", "html")
  ELSE Filename(<<"..">>, "up", "html")

\* files of the watched site
WatchFiles == {F_a_md, F_b_p}

NoClock ==
  [notified |-> 0, sinceNotify |-> 0, bursts |-> 0, drains |-> 0,
   drainAge |-> 0, renders |-> 0, busy |-> 0, stale |-> {}, unrendered |-> {},
   lastRead |-> [n |-> 0, kind |-> "", dir |-> "", fn |-> NoFile, text |-> NoText]]

\* config.watch is false: no watcher exists
WatchOff ==
  /\ contentDir = [f \in WatchFiles \cup {TemplateFile(n) : n \in TemplateNames} |-> NoText]
  /\ templateDir = [n \in TemplateNames |-> NoText]
  /\ content = {}
  /\ template = {}
  /\ timer = -1
  /\ reRendering = FALSE
  /\ runs = <<>>
  /\ failed = FALSE
  /\ clock = NoClock

Init ==
  /\ contentMap = <<>>
  /\ templateMap \in { [t \in TemplateNames |-> NoText],
                       [t \in TemplateNames |-> Plain(1)] }
  /\ writeHash = EmptyMap
  /\ disk = EmptyMap
  /\ tacs = [all |-> <<>>, dir |-> <<>>, tag |-> <<>>, tagList |-> <<>>]
  /\ calls = 0
  /\ call = NoCall
  /\ pass = NoPass
  /\ prev = NoPass
  /\ edits = <<>>
  /\ WatchOff
  /\ isDev = FALSE
  /\ source = EmptyMap
  /\ lib = NoLib

SlugOf(cm, filename) == IF MapHas(cm, filename) THEN MapGet(cm, filename).slug ELSE <<>>

\* publican.addContent(filename, content) as one step of a caller
AddContentStep(filename, text) ==
  /\ LET r == addContent(contentMap, filename, text)
     IN /\ contentMap' = r.map
        /\ call' = [op |-> "addContent", fn |-> filename, def |-> text.def,
                    threw |-> r.threw]
        /\ edits' = Append(edits,
                      [op |-> "addContent", fn |-> filename, threw |-> r.threw,
                       before |-> SlugOf(contentMap, filename),
                       after |-> SlugOf(r.map, filename)])
        /\ source' = IF r.threw THEN source ELSE Put(source, filename, text)
  /\ calls' = calls + 1
  /\ UNCHANGED <<templateMap, writeHash, disk, tacs, pass, prev>>
  /\ UNCHANGED watchVars
  /\ UNCHANGED <<isDev, lib>>

\* a caller calls publican.addContent(filename, content)
CallAddContent(filename, text) ==
  /\ calls < MaxCalls
  /\ AddContentStep(filename, text)

\* publican.addTemplate(filename, content) as one step of a caller
AddTemplateStep(filename, text) ==
  /\ templateMap' = addTemplate(templateMap, filename, text)
  /\ call' = [op |-> "addTemplate", fn |-> TemplateFile(filename),
              def |-> text.def, threw |-> FALSE]
  /\ edits' = Append(edits, [op |-> "addTemplate", fn |-> NoFile,
                             threw |-> FALSE, before |-> <<>>, after |-> <<>>])
  /\ calls' = calls + 1
  /\ UNCHANGED <<contentMap, writeHash, disk, tacs, pass, prev>>
  /\ UNCHANGED watchVars
  /\ UNCHANGED libVars

\* a caller calls publican.addTemplate(filename, content)
CallAddTemplate(filename, text) ==
  /\ calls < MaxCalls
  /\ AddTemplateStep(filename, text)

\* slug -> filename of the object rendered for it
SrcOf(all) == [s \in MapKeys(all) |-> MapGet(all, s).src]

\* the summary of a render pass
PassSummary(r, n, since) ==
  [n |-> n, ok |-> ~r.threw,
   written |-> IF r.threw THEN <<>> ELSE [i \in DOMAIN r.write |-> r.write[i].slug],
   out |-> r.out, src |-> SrcOf(r.all), since |-> since, order |-> r.order]

\* `await this.#render()`: the render pass with its writes
RenderStep ==
  /\ LET r == Render(contentMap, templateMap, writeHash)
     IN /\ contentMap' = r.cm
        /\ writeHash' = r.writeHash
        /\ tacs' = [all |-> r.all, dir |-> r.dir, tag |-> r.tag, tagList |-> r.tagList]
        /\ disk' = IF r.threw THEN disk ELSE WriteFiles(disk, r.write, 1)
        /\ pass' = PassSummary(r, pass.n + 1, edits)
        /\ call' = [op |-> "render", fn |-> NoFile, def |-> FALSE, threw |-> r.threw]
  /\ prev' = pass
  /\ edits' = <<>>
  /\ calls' = calls + 1
  /\ UNCHANGED templateMap
  /\ UNCHANGED watchVars
  /\ UNCHANGED libVars

\* build() reaches `await this.#render()`
CallRender ==
  /\ calls < MaxCalls
  /\ RenderStep

Next ==
  \/ \E in \in ContentInputs : CallAddContent(in[1], in[2])
  \/ \E in \in TemplateInputs : CallAddTemplate(in[1], in[2])
  \/ CallRender

Spec == Init /\ [][Next]_vars

\* --------------------------------------------------------------- watch mode
\* the site that build() finds on disk before it starts the watcher
SiteContent == <<[k |-> F_a_md, v |-> T_plain1], [k |-> F_b_p, v |-> T_plain1]>>

\* build(): file[0].forEach(addContent)
RECURSIVE AddAll(_, _, _)
AddAll(cm, files, i) ==
  IF i > Len(files) THEN cm
  ELSE AddAll(addContent(cm, files[i].k, files[i].v).map, files, i + 1)

BuiltSite ==
  Render(AddAll(<<>>, SiteContent, 1), [n \in TemplateNames |-> T_plain1], EmptyMap)

\* the state when build() has rendered and #watcher() has installed the watches
WatchInit ==
  /\ isDev = FALSE
  /\ source = EmptyMap
  /\ lib = NoLib
  /\ contentMap = BuiltSite.cm
  /\ templateMap = [n \in TemplateNames |-> T_plain1]
  /\ writeHash = BuiltSite.writeHash
  /\ disk = WriteFiles(EmptyMap, BuiltSite.write, 1)
  /\ tacs = [all |-> BuiltSite.all, dir |-> BuiltSite.dir, tag |-> BuiltSite.tag,
            tagList |-> BuiltSite.tagList]
  /\ calls = 0
  /\ call = NoCall
  /\ pass = PassSummary(BuiltSite, 1, <<>>)
  /\ prev = NoPass
  /\ edits = <<>>
  /\ contentDir = [f \in WatchFiles \cup {TemplateFile(n) : n \in TemplateNames} |->
                     IF f = F_a_md \/ f = F_b_p THEN T_plain1 ELSE NoText]
  /\ templateDir = [n \in TemplateNames |-> T_plain1]
  /\ content = {}
  /\ template = {}
  /\ timer = -1
  /\ reRendering = FALSE
  /\ runs = <<>>
  /\ failed = FALSE
  /\ clock = NoClock

\* wait(): clearTimeout, then setTimeout(reRender, config.watchDebounce)
waitShort == WatchDebounce - 1
wait == WatchDebounce

\* a changed path as the watcher is told of it
Path(dir, fn) == [dir |-> dir, fn |-> fn]

\* a notification withdraws the path from what running passes cover
Uncover(rs, p) == [i \in DOMAIN rs |-> [rs[i] EXCEPT !.covered = @ \ {p}]]

Notified(p) ==
  [clock EXCEPT !.notified = @ + 1, !.sinceNotify = 0,
                !.bursts = IF timer = -1 THEN @ + 1 ELSE @,
                !.stale = @ \cup {p}, !.unrendered = @ \cup {p}]

\* a content file changes on disk and the content watch callback runs
NotifyContent(f, t) ==
  /\ clock.notified < MaxNotify
  /\ contentDir' = [contentDir EXCEPT ![f] = t]
  /\ content' = content \cup {f}
  /\ timer' = wait
  /\ clock' = Notified(Path("content", f))
  /\ runs' = Uncover(runs, Path("content", f))
  /\ UNCHANGED <<apiVars, histVars, templateDir, template, reRendering, failed>>
  /\ UNCHANGED libVars

\* a template file changes on disk and the template watch callback runs
NotifyTemplate(n, t) ==
  /\ clock.notified < MaxNotify
  /\ templateDir' = [templateDir EXCEPT ![n] = t]
  /\ template' = template \cup {n}
  /\ timer' = wait
  /\ clock' = Notified(Path("template", TemplateFile(n)))
  /\ runs' = Uncover(runs, Path("template", TemplateFile(n)))
  /\ UNCHANGED <<apiVars, histVars, contentDir, content, reRendering, failed>>
  /\ UNCHANGED libVars

\* time passes: one tick of the clock
Tick ==
  /\ timer # 0
  /\ timer > 0 \/ clock.sinceNotify < WatchDebounce
  /\ timer' = IF timer > 0 THEN timer - 1 ELSE timer
  /\ clock' = [clock EXCEPT !.sinceNotify =
                 IF @ < WatchDebounce THEN @ + 1 ELSE @]
  /\ UNCHANGED <<apiVars, histVars, contentDir, templateDir, content, template,
                 reRendering, runs, failed>>
  /\ UNCHANGED libVars

RemoveAt(rs, i) == SubSeq(rs, 1, i - 1) \o SubSeq(rs, i + 1, Len(rs))

\* `if (this.#reRendering)` at the head of reRender
AlreadyRenderingNever(flag) == FALSE
AlreadyRendering(flag) == flag

\* `render if no more changes`: the negation of
\* !content.size && !template.size
moreChangesNever(pc, pt) == FALSE
moreChanges(pc, pt) == pc # {} \/ pt # {}

\* reRender from the end of an awaited step of run i on: rs holds the run as
\* the step leaves it, cm and tm the maps as the step leaves them, pc and pt
\* the pending sets, ck the clock.  While reads are outstanding the run waits;
\* when all have settled it either leaves the render to a later pass or runs
\* #render up to the file writes.
Continue(rs, i, cm, tm, pc, pt, ck) ==
  IF rs[i].cFiles # {} \/ rs[i].tFiles # {}
  THEN /\ runs' = rs
       /\ contentMap' = cm
       /\ templateMap' = tm
       /\ clock' = ck
       /\ UNCHANGED <<writeHash, tacs, pass, prev, failed>>
       /\ reRendering' = TRUE
  ELSE IF moreChanges(pc, pt)
  THEN /\ runs' = RemoveAt(rs, i)
       /\ contentMap' = cm
       /\ templateMap' = tm
       /\ clock' = ck
       /\ UNCHANGED <<writeHash, tacs, pass, prev, failed>>
       /\ reRendering' = FALSE
  ELSE
    LET r == Render(cm, tm, writeHash)
        covered == ck.unrendered \ ck.stale
        ck2 == [ck EXCEPT !.renders = @ + 1]
    IN /\ contentMap' = r.cm
       /\ templateMap' = tm
       /\ writeHash' = r.writeHash
       /\ tacs' = [all |-> r.all, dir |-> r.dir, tag |-> r.tag, tagList |-> r.tagList]
       /\ pass' = PassSummary(r, pass.n + 1, <<>>)
       /\ prev' = pass
       /\ IF r.threw
          THEN /\ runs' = RemoveAt(rs, i)
               /\ failed' = TRUE
               /\ reRendering' = TRUE
               /\ clock' = ck2
          ELSE IF r.write = <<>>
          THEN /\ runs' = RemoveAt(rs, i)
               /\ failed' = failed
               /\ reRendering' = FALSE
               /\ clock' = [ck2 EXCEPT !.unrendered = @ \ covered]
          ELSE /\ runs' = [rs EXCEPT ![i] =
                             [@ EXCEPT !.phase = "write", !.write = Range(r.write),
                                       !.covered = covered]]
               /\ failed' = failed
               /\ reRendering' = TRUE
               /\ clock' = ck2

\* the debounce timeout fires: reRender runs up to its first await
Expire ==
  /\ timer = 0
  /\ IF AlreadyRendering(reRendering)
     THEN /\ timer' = wait
          /\ clock' = [clock EXCEPT !.busy = IF @ < MaxNotify THEN @ + 1 ELSE @]
          /\ UNCHANGED <<apiVars, histVars, contentDir, templateDir, content,
                         template, reRendering, runs, failed>>
          /\ UNCHANGED libVars
     ELSE /\ timer' = -1
          /\ content' = {}
          /\ template' = {}
          /\ Continue(Append(runs, [phase |-> "read", cFiles |-> content,
                                    tFiles |-> template, write |-> {},
                                    covered |-> {}]),
                      Len(runs) + 1, contentMap, templateMap, {}, {},
                      [clock EXCEPT !.drains = @ + 1,
                                    !.drainAge = clock.sinceNotify])
          /\ UNCHANGED <<disk, calls, call, edits, contentDir, templateDir>>
          /\ UNCHANGED libVars

\* this.#readFileContents(path, file) for one file of directory dir
readFileContents(dir, f) == dir[f]

Read(ck, kind, d, f, t) ==
  [ck EXCEPT !.stale = @ \ {Path(d, f)},
             !.lastRead = [n |-> @.n + 1, kind |-> kind, dir |-> d, fn |-> f,
                           text |-> t]]

\* `process content changes`: the read of content file f of run i settles
\* and addContent stores or deletes the record
ReadContent(i, f) ==
  /\ runs[i].phase = "read"
  /\ f \in runs[i].cFiles
  /\ LET m == readFileContents(contentDir, f)
     IN Continue([runs EXCEPT ![i].cFiles = @ \ {f}], i,
                 addContent(contentMap, f, m).map, templateMap,
                 content, template, Read(clock, "content", "content", f, m))
  /\ UNCHANGED <<disk, calls, call, edits, contentDir, templateDir, content,
                 template, timer>>
  /\ UNCHANGED libVars

\* the directory that `process template changes` reads the file from
templateReadDir == "content"

\* `process template changes`: the read of template file n of run i settles
\* and addTemplate stores or deletes the template
ReadTemplate(i, n) ==
  /\ runs[i].phase = "read"
  /\ runs[i].cFiles = {}
  /\ n \in runs[i].tFiles
  /\ LET d == templateReadDir
         m == IF d = "content" THEN readFileContents(contentDir, TemplateFile(n))
              ELSE readFileContents(templateDir, n)
     IN Continue([runs EXCEPT ![i].tFiles = @ \ {n}], i,
                 contentMap, addTemplate(templateMap, n, m),
                 content, template, Read(clock, "template", d, TemplateFile(n), m))
  /\ UNCHANGED <<disk, calls, call, edits, contentDir, templateDir, content,
                 template, timer>>
  /\ UNCHANGED libVars

\* `write content to changed files`: one mkdir + writeFile of run i settles;
\* when the last has settled #render returns and reRender resets the flag
WriteFile(i, w) ==
  /\ runs[i].phase = "write"
  /\ w \in runs[i].write
  /\ disk' = Put(disk, join(buildDir, w.slug), w.content)
  /\ IF runs[i].write = {w}
     THEN /\ runs' = RemoveAt(runs, i)
          /\ reRendering' = FALSE
          /\ clock' = [clock EXCEPT !.unrendered = @ \ runs[i].covered]
     ELSE /\ runs' = [runs EXCEPT ![i].write = @ \ {w}]
          /\ UNCHANGED <<reRendering, clock>>
  /\ UNCHANGED <<contentMap, templateMap, writeHash, tacs, histVars, contentDir,
                 templateDir, content, template, timer, failed>>
  /\ UNCHANGED libVars

ContentChanges ==
  ({F_a_md} \X {T_plain2, T_bad, NoText}) \cup ({F_b_p} \X {T_plain2})

TemplateChanges == {"default.html"} \X {T_plain2}

WatchNext ==
  \/ \E in \in ContentChanges : NotifyContent(in[1], in[2])
  \/ \E in \in TemplateChanges : NotifyTemplate(in[1], in[2])
  \/ Tick
  \/ Expire
  \/ \E i \in DOMAIN runs : \E f \in runs[i].cFiles : ReadContent(i, f)
  \/ \E i \in DOMAIN runs : \E n \in runs[i].tFiles : ReadTemplate(i, n)
  \/ \E i \in DOMAIN runs : \E w \in runs[i].write : WriteFile(i, w)

WatchSpec == WatchInit /\ [][WatchNext]_vars

\* ------------------------------------------------- a site with front matter
\* A caller builds a site whose files carry publish, index and tags values,
\* with development mode on or off, and adds a template by a path that
\* leaves the template directory.
MaxSiteCalls == 4      \* API calls made by the caller in SiteSpec

F_index == Filename(<<>>, "index", "md")
F_b_q   == Filename(<<"b">>, "q", "md")

S_bq == <<"b", "q", "index.html">>

T_slugBp  == Text(S_bp, "", 2, <<>>, FALSE)
T_false   == Text(<<>>, "false", 1, <<>>, FALSE)
T_future  == Text(<<>>, "2999-01-01", 1, <<>>, FALSE)
T_past    == FrontMatter(Text(<<>>, "2000-01-01", 2, <<>>, FALSE), "", <<"JS", "js">>)
T_tagged  == FrontMatter(Plain(1), "", <<"js", "js">>)
T_noIndex == FrontMatter(Plain(1), "false", <<>>)

\* a template name that leaves the template directory
N_up == "../up.html"

SiteContentInputs ==
  ({F_index} \X {T_plain1})
  \cup ({F_a_md} \X {T_plain1, T_slugBp})
  \cup ({F_b_p} \X {T_tagged, T_future, T_noIndex, NoText})
  \cup ({F_b_q} \X {T_past, T_draft, T_false})

SiteTemplateInputs == {N_up} \X {T_plain2}

SiteInit ==
  /\ isDev \in BOOLEAN
  /\ contentMap = <<>>
  /\ templateMap = [t \in TemplateNames |-> Plain(1)]
  /\ writeHash = EmptyMap
  /\ disk = EmptyMap
  /\ tacs = [all |-> <<>>, dir |-> <<>>, tag |-> <<>>, tagList |-> <<>>]
  /\ calls = 0
  /\ call = NoCall
  /\ pass = NoPass
  /\ prev = NoPass
  /\ edits = <<>>
  /\ WatchOff
  /\ source = EmptyMap
  /\ lib = NoLib

SiteAddContent(filename, text) ==
  /\ calls < MaxSiteCalls
  /\ AddContentStep(filename, text)

SiteAddTemplate(filename, text) ==
  /\ calls < MaxSiteCalls
  /\ AddTemplateStep(filename, text)

SiteRender ==
  /\ calls < MaxSiteCalls
  /\ RenderStep

SiteNext ==
  \/ \E in \in SiteContentInputs : SiteAddContent(in[1], in[2])
  \/ \E in \in SiteTemplateInputs : SiteAddTemplate(in[1], in[2])
  \/ SiteRender

SiteSpec == SiteInit /\ [][SiteNext]_vars

\* ------------------------------------------------------- library functions
\* A library function is called on an argument drawn at the start; texts are
\* sequences of one-character strings.
MaxLen == 6            \* characters of a text handed to extractExpressions

\* the characters of the texts: a letter, the expression markers, the `|` of
\* the marker class, braces and a quote
Chars == {"a", "$", "!", "|", "{", "}", "'"}

\* all texts of at most n characters
RECURSIVE TextsUpTo(_)
TextsUpTo(n) ==
  IF n = 0 THEN {<<>>}
  ELSE LET shorter == TextsUpTo(n - 1)
       IN shorter \cup { Append(t, c) : t \in { u \in shorter : Len(u) = n - 1 },
                                        c \in Chars }

\* the back-tick and the backslash, by name
Backtick == "backtick"
Backslash == "backslash"

\* the characters that open a quote in an expression (the texts here hold
\* no double quote)
Quotes == {"'", Backtick}

\* str.slice(from, to) with 1-based inclusive positions
Slice(str, from, to) == SubSeq(str, from, to)

\* findExp = /[$|!]\{/g with lastIndex at position i: the position of the
\* next match, 0 when there is none
RECURSIVE findExp(_, _)
findExp(str, i) ==
  IF i + 1 > Len(str) THEN 0
  ELSE IF str[i] \in {"$", "|", "!"} /\ str[i + 1] = "{" THEN i
  ELSE findExp(str, i + 1)

\* `find end of expression`: the loop over j with its quote and bCount; the
\* position of the closing brace, 0 when the loop ends without one
RECURSIVE findEnd(_, _, _, _)
findEnd(str, j, quote, bCount) ==
  IF j > Len(str) THEN 0
  ELSE
    LET c == str[j]
    IN IF quote # ""
       THEN findEnd(str, j + 1,
                    IF c = quote /\ str[j - 1] # Backslash THEN "" ELSE quote,
                    bCount)
       ELSE IF c \in Quotes THEN findEnd(str, j + 1, c, bCount)
       ELSE IF c = "{" THEN findEnd(str, j + 1, "", bCount + 1)
       ELSE IF c = "}"
            THEN IF bCount - 1 = 0 THEN j
                 ELSE findEnd(str, j + 1, "", bCount - 1)
       ELSE findEnd(str, j + 1, "", bCount)

\* the start of the slice stored as markdown before an expression
mdFromStart(i) == 1
mdFrom(i) == i

\* the while loop of extractExpressions from position i on, and the final
\* md.push(str.slice(i))
RECURSIVE scanFrom(_, _, _, _)
scanFrom(str, i, md, exp) ==
  IF i > Len(str) THEN [md |-> Append(md, Slice(str, i, Len(str))), exp |-> exp]
  ELSE
    LET start == findExp(str, i)
    IN IF start = 0
       THEN [md |-> Append(md, Slice(str, i, Len(str))), exp |-> exp]
       ELSE
         LET md1 == Append(md, Slice(str, mdFrom(i), start - 1))
             end == findEnd(str, start + 2, "", 1)
         IN IF end > 0
            THEN scanFrom(str, end + 1, md1, Append(exp, Slice(str, start, end)))
            ELSE [md |-> Append(md1, Slice(str, i, Len(str))), exp |-> exp]

extractExpressions(str) == scanFrom(str, 1, <<>>, <<>>)

\* a call of a library function is pending on its argument
Pending(fn, args) ==
  { [fn |-> fn, arg |-> a, ret |-> <<>>, done |-> FALSE] : a \in args }

\* the state of the site while a library function is looked at on its own
NoSite ==
  /\ isDev = FALSE
  /\ contentMap = <<>>
  /\ templateMap = [t \in TemplateNames |-> NoText]
  /\ writeHash = EmptyMap
  /\ disk = EmptyMap
  /\ tacs = [all |-> <<>>, dir |-> <<>>, tag |-> <<>>, tagList |-> <<>>]
  /\ calls = 0
  /\ call = NoCall
  /\ pass = NoPass
  /\ prev = NoPass
  /\ edits = <<>>
  /\ WatchOff
  /\ source = EmptyMap

siteVars == <<apiVars, histVars, watchVars, isDev, source>>

ScanInit == NoSite /\ lib \in Pending("extractExpressions", TextsUpTo(MaxLen))

\* mdHTML calls extractExpressions(str)
CallExtractExpressions ==
  /\ lib.fn = "extractExpressions" /\ ~lib.done
  /\ lib' = [lib EXCEPT !.ret = extractExpressions(lib.arg), !.done = TRUE]
  /\ UNCHANGED siteVars

ScanNext == CallExtractExpressions

ScanSpec == ScanInit /\ [][ScanNext]_vars

\* --------------------------------------------------------------- navHeading
\* A document is the sequence of its h2..h6 elements; a heading has the id
\* its attributes declare (none: the empty text) and its inner text p3.  The
\* heading anchor options are the defaults, which name no nolink / nomenu
\* marker, so that addLink and addMenu are true for every heading.
MaxHeadings == 3       \* headings of a document handed to navHeading

Heading(declared, text) == [declared |-> declared, text |-> text]

HeadingTexts == { <<"a">>, <<"A">>, <<"a", " ", "2">>, <<"2">> }
DeclaredIds == { <<"a">>, <<"a", "-", "2">> }

Headings ==
  { Heading(<<>>, t) : t \in HeadingTexts }
  \cup { Heading(d, <<"a">>) : d \in DeclaredIds }

\* all documents of at most n headings
RECURSIVE DocsUpTo(_)
DocsUpTo(n) ==
  IF n = 0 THEN {<<>>}
  ELSE LET shorter == DocsUpTo(n - 1)
       IN shorter \cup { Append(d, h) : d \in { u \in shorter : Len(u) = n - 1 },
                                        h \in Headings }

\* \w and \s on the characters of the heading texts
IsWord(c) == c \in {"a", "A", "2"}
IsSpace(c) == c = " "

\* .replace(/[^\w\s]/g, '')
StripNonWord(text) == LET Keep(c) == IsWord(c) \/ IsSpace(c) IN SelectSeq(text, Keep)

\* .replace(/\s+/g, '-')
RECURSIVE DashSpaces(_, _)
DashSpaces(text, i) ==
  IF i > Len(text) THEN <<>>
  ELSE IF IsSpace(text[i])
       THEN (IF i > 1 /\ IsSpace(text[i - 1]) THEN <<>> ELSE <<"-">>)
            \o DashSpaces(text, i + 1)
  ELSE <<text[i]>> \o DashSpaces(text, i + 1)

\* .toLowerCase()
LowerCase(text) == [i \in DOMAIN text |-> IF text[i] = "A" THEN "a" ELSE text[i]]

\* `generate ID` and `ensure ID starts with a letter` (the texts hold no tag)
generateId(p3) ==
  LET id == LowerCase(DashSpaces(StripNonWord(p3), 1))
  IN IF id = <<>> \/ id[1] # "a" THEN <<"a", "-">> \o id ELSE id

\* `handle duplicate IDs`: the id with the suffix for its count
Suffixed(id, count) == IF count > 1 THEN id \o <<"-", ToString(count)>> ELSE id

\* the replace callback over the headings from position i on: idCount is
\* the count of every generated id, ids the id of every heading so far
RECURSIVE headingsFrom(_, _, _, _)
headingsFrom(doc, i, idCount, ids) ==
  IF i > Len(doc) THEN ids
  ELSE
    LET idUsed == doc[i].declared
    IN IF idUsed # <<>>
       THEN headingsFrom(doc, i + 1, idCount, Append(ids, idUsed))
       ELSE
         LET id == generateId(doc[i].text)
             count == CountOf(idCount, id) + 1
         IN headingsFrom(doc, i + 1, Put(idCount, id, count),
                         Append(ids, Suffixed(id, count)))

\* navHeading(str, haOpt): the id carried by every heading of the content
navHeading(doc) == [ids |-> headingsFrom(doc, 1, EmptyMap, <<>>)]

NavInit == NoSite /\ lib \in Pending("navHeading", DocsUpTo(MaxHeadings))

\* #render calls navHeading(content, this.config.headingAnchor)
CallNavHeading ==
  /\ lib.fn = "navHeading" /\ ~lib.done
  /\ lib' = [lib EXCEPT !.ret = navHeading(lib.arg), !.done = TRUE]
  /\ UNCHANGED siteVars

NavNext == CallNavHeading

NavSpec == NavInit /\ [][NavNext]_vars

\* ---------------------------------------------------------------- #paginate
\* #paginate is called on a Map of one or two groups of records, a page size
\* and a root; a record of a group is known by its slug.
MaxItems == 7          \* records of the group that is paginated
MaxPageSize == 3       \* the page size handed to #paginate

\* the n records of group name, in list order
GroupList(name, n) ==
  [k \in 1..n |-> [slug |-> <<name, ToString(k), "index.html">>]]

PaginateInputs ==
  { [map |-> <<[k |-> "d", v |-> GroupList("d", n)]>> \o more,
     size |-> size, root |-> root] :
      n \in 0..MaxItems, size \in 1..MaxPageSize,
      root \in {<<>>, tagPagesRoot},
      more \in {<<>>, <<[k |-> "e", v |-> GroupList("e", 2)]>>} }

PageInit == NoSite /\ lib \in Pending("paginate", PaginateInputs)

\* #render calls this.#paginate(map, size, root, template)
CallPaginate ==
  /\ lib.fn = "paginate" /\ ~lib.done
  /\ lib' = [lib EXCEPT
              !.ret = paginate(lib.arg.map, lib.arg.size, lib.arg.root,
                               dirPagesTemplate),
              !.done = TRUE]
  /\ UNCHANGED siteVars

PageNext == CallPaginate

PageSpec == PageInit /\ [][PageNext]_vars

\* ------------------------------------------------------------ templateParse

\* let maxIterations = 50
maxIterations == 50

\* A template text is a sequence of tokens: single characters, Backslash,
\* Backtick, and the source of an expression (data.d, include('file')) kept
\* whole.  Width is the number of characters a token stands for.
Width(tok) == IF tok \in {Backslash, Backtick} THEN 1 ELSE Len(tok)

RECURSIVE extraWidth(_, _)
extraWidth(text, places) ==
  IF places = {} THEN 0
  ELSE LET k == CHOOSE p \in places : TRUE
       IN  Width(text[k]) - 1 + extraWidth(text, places \ {k})

\* template.length
length(text) ==
  Len(text) + extraWidth(text, { k \in DOMAIN text : Width(text[k]) > 1 })

\* the source of the expression include('file')
IncludeOf(file) == "include('" \o file \o "')"

\* the value of data.d in the data passed to templateParse
DataD == <<"b">>

\* the files templateGet finds under tacsConfig.dir.template: nav/a.html and
\* nav/b.html include each other, self.html includes itself
Partials ==
  [ f \in {"nav/a.html", "nav/b.html", "self.html", "plain.html"} |->
      CASE f = "nav/a.html" -> <<"$", "{", IncludeOf("nav/b.html"), "}">>
        [] f = "nav/b.html" -> <<"a", "$", "{", IncludeOf("nav/a.html"), "}">>
        [] f = "self.html"  -> <<"a", "$", "{", IncludeOf("self.html"), "}">>
        [] OTHER            -> <<"a", "!", "{", "data.d", "}">> ]

\* content = templateMap.get(file); return content || ''
templateGet(file) == Partials[file]

IsInclude(tok) == \E f \in DOMAIN Partials : tok = IncludeOf(f)

FileOf(tok) == CHOOSE f \in DOMAIN Partials : tok = IncludeOf(f)

\* template.replace(/!\{/g, '${')
replaceMarker(text) ==
  [ i \in 1..Len(text) |->
      IF text[i] = "!" /\ i < Len(text) /\ text[i + 1] = "{" THEN "$"
      ELSE text[i] ]

\* The call in progress: the closure variables template, olen and
\* maxIterations, and the stack of parser calls, innermost last.  A frame is
\* one evaluation of html`str`: str, the place i reached in it, and ret, the
\* text put together so far.  passes counts the turns of the while loop.
NewCall(str) ==
  [ template |-> str, olen |-> 0, maxIterations |-> maxIterations,
    stack |-> <<>>, passes |-> 0, threw |-> FALSE, out |-> <<>> ]

Frame(str) == [str |-> str, i |-> 1, ret |-> <<>>]

\* a place where the literal html`str` holds something other than plain text:
\* a backslash, a backtick, or the start of a ${ expression
Special(str, k) ==
  \/ str[k] \in {Backslash, Backtick}
  \/ str[k] = "$" /\ k < Len(str) /\ str[k + 1] = "{"

\* the first such place from i on, Len(str) + 1 when there is none
NextSpecial(str, i) ==
  LET places == { k \in i..Len(str) : Special(str, k) }
  IN  IF places = {} THEN Len(str) + 1
      ELSE CHOOSE k \in places : \A j \in places : k <= j

Running == lib.fn = "templateParse" /\ ~lib.done /\ lib.ret # <<>>

Top == lib.ret.stack[Len(lib.ret.stack)]

At == NextSpecial(Top.str, Top.i)

\* the plain text html`str` adds before the place At
Before == SubSeq(Top.str, Top.i, At - 1)

\* the stack with its innermost frame moved on to place i, text added
Moved(i, text) ==
  [lib.ret.stack EXCEPT ![Len(lib.ret.stack)] =
     [@ EXCEPT !.i = i, !.ret = @ \o Before \o text]]

\* the stack after a parser call returned value to its caller, which is
\* html (through include) when a frame is left
Returned(stack, value) ==
  IF stack = <<>> THEN stack
  ELSE [stack EXCEPT ![Len(stack)] = [@ EXCEPT !.ret = @ \o value]]

MachineDone(out, threw) ==
  lib' = [lib EXCEPT !.done = TRUE,
                     !.ret = [@ EXCEPT !.out = out, !.threw = threw,
                                       !.stack = <<>>]]

\* the pieces templates are put together from
MaxPieces == 2

Pieces ==
  { <<"a">>, <<Backslash>>, <<Backtick>>,
    <<"$", "{", "data.d", "}">>,
    <<"!", "{", "data.d", "}">>,
    <<"!", "{", "$", "{", "data.d", "}", "}">>,
    <<"$", "{", IncludeOf("nav/a.html"), "}">>,
    <<"$", "{", IncludeOf("self.html"), "}">>,
    <<"$", "{", IncludeOf("plain.html"), "}">> }

RECURSIVE TemplatesUpTo(_)
TemplatesUpTo(n) ==
  IF n = 0 THEN {<<>>}
  ELSE LET shorter == TemplatesUpTo(n - 1)
       IN  shorter \cup { t \o p : t \in shorter, p \in Pieces }

ParseInit == NoSite /\ lib \in Pending("templateParse", TemplatesUpTo(MaxPieces))

\* #render calls templateParse(templateMap.get(useTemplate), data):
\* let maxIterations = 50; let olen = 0
CallTemplateParse ==
  /\ lib.fn = "templateParse" /\ ~lib.done /\ lib.ret = <<>>
  /\ lib' = [lib EXCEPT !.ret = NewCall(lib.arg)]
  /\ UNCHANGED siteVars

\* while (template.length !== olen) { olen = template.length; template =
\* parser(template); }: a turn of the loop begins.  parser counts
\* maxIterations down and evaluates html`str`, or returns '' at the cap.
ParsePass ==
  /\ Running /\ lib.ret.stack = <<>>
  /\ length(lib.ret.template) # lib.ret.olen
  /\ LET mi == lib.ret.maxIterations - 1
     IN  lib' = [lib EXCEPT !.ret =
           [@ EXCEPT !.olen = length(lib.ret.template),
                     !.maxIterations = mi,
                     !.passes = @ + 1,
                     !.template = IF mi > 0 THEN @ ELSE <<>>,
                     !.stack = IF mi > 0 THEN <<Frame(lib.ret.template)>>
                               ELSE <<>>]]
  /\ UNCHANGED siteVars

\* the loop ends: return template.replace(/!\{/g, '${')
ParseReturn ==
  /\ Running /\ lib.ret.stack = <<>>
  /\ length(lib.ret.template) = lib.ret.olen
  /\ MachineDone(replaceMarker(lib.ret.template), FALSE)
  /\ UNCHANGED siteVars

\* html`str` is read to its end: parser returns the text to the loop, or to
\* the html call that evaluated the include
EvalEnd ==
  /\ Running /\ lib.ret.stack # <<>>
  /\ At > Len(Top.str)
  /\ LET value == Top.ret \o Before
         rest == SubSeq(lib.ret.stack, 1, Len(lib.ret.stack) - 1)
     IN  lib' = [lib EXCEPT !.ret =
           [@ EXCEPT !.stack = Returned(rest, value),
                     !.template = IF rest = <<>> THEN value ELSE @]]
  /\ UNCHANGED siteVars

\* a backslash escapes the token after it: the cooked string html is given
\* holds that token alone
EvalEscape ==
  /\ Running /\ lib.ret.stack # <<>>
  /\ At < Len(Top.str) /\ Top.str[At] = Backslash
  /\ lib' = [lib EXCEPT !.ret =
       [@ EXCEPT !.stack = Moved(At + 2, <<Top.str[At + 1]>>)]]
  /\ UNCHANGED siteVars

\* ${data.d}: html adds String(value)
EvalData ==
  /\ Running /\ lib.ret.stack # <<>>
  /\ At + 3 <= Len(Top.str) /\ Top.str[At] = "$"
  /\ Top.str[At + 2] = "data.d" /\ Top.str[At + 3] = "}"
  /\ lib' = [lib EXCEPT !.ret = [@ EXCEPT !.stack = Moved(At + 4, DataD)]]
  /\ UNCHANGED siteVars

\* ${include('file')}: const content = templateGet(...); return content ?
\* parser(content) : ''
EvalInclude ==
  /\ Running /\ lib.ret.stack # <<>>
  /\ At + 3 <= Len(Top.str) /\ Top.str[At] = "$"
  /\ IsInclude(Top.str[At + 2]) /\ Top.str[At + 3] = "}"
  /\ LET included == templateGet(FileOf(Top.str[At + 2]))
         mi == lib.ret.maxIterations - 1
         on == Moved(At + 4, <<>>)
     IN  lib' = [lib EXCEPT !.ret =
           IF included = <<>> THEN [@ EXCEPT !.stack = on]
           ELSE [@ EXCEPT !.maxIterations = mi,
                          !.stack = IF mi > 0 THEN Append(on, Frame(included))
                                    ELSE on]]
  /\ UNCHANGED siteVars

\* eval throws: a backslash at the end of the text escapes the closing
\* backtick (SyntaxError), a backtick of the text ends the literal and what
\* follows it is not an expression (SyntaxError, or TypeError when the string
\* html returned is called as a tag), a ${ that is not followed by one of
\* the expressions above and a closing brace (SyntaxError or ReferenceError
\* in the texts of Pieces).  The engine finds a SyntaxError before it
\* evaluates any expression of the literal; the call throws either way.
EvalThrow ==
  /\ Running /\ lib.ret.stack # <<>>
  /\ At <= Len(Top.str)
  /\ \/ Top.str[At] = Backslash /\ At = Len(Top.str)
     \/ Top.str[At] = Backtick
     \/ /\ Top.str[At] = "$"
        /\ ~ /\ At + 3 <= Len(Top.str)
             /\ Top.str[At + 2] = "data.d" \/ IsInclude(Top.str[At + 2])
             /\ Top.str[At + 3] = "}"
  /\ MachineDone(<<>>, TRUE)
  /\ UNCHANGED siteVars

ParseNext ==
  \/ CallTemplateParse
  \/ ParsePass
  \/ ParseReturn
  \/ EvalEnd
  \/ EvalEscape
  \/ EvalData
  \/ EvalInclude
  \/ EvalThrow

ParseSpec == ParseInit /\ [][ParseNext]_vars

\* ------------------------------------------------------ slugify on characters
\* A filename is a sequence of tokens: single characters and the words index,
\* md, MD and html kept whole (a word holds no dot, slash or space).
MaxNameLen == 4        \* tokens of a filename handed to slugify

NameChars == {"a", "index", "md", "MD", ".", "/", " ", "#", Backslash}

RECURSIVE NamesUpTo(_)
NamesUpTo(n) ==
  IF n = 0 THEN {<<>>}
  ELSE LET shorter == NamesUpTo(n - 1)
       IN shorter \cup { Append(t, c) : t \in { u \in shorter : Len(u) = n - 1 },
                                        c \in NameChars }

\* filename.toLowerCase()
lowerCase(str) == [i \in DOMAIN str |-> toLowerCase(str[i])]

\* the last of a set of places, 0 when there is none
LastPlace(places) ==
  IF places = {} THEN 0 ELSE CHOOSE i \in places : \A j \in places : j <= i

\* node:path parse(path) (posix): dir, name and ext.  The base is the part
\* after the last slash, trailing slashes left out; ext runs from the last
\* dot of the base, unless that dot starts the base or the base is '..'
parse(path) ==
  LET end == LastPlace({ i \in DOMAIN path : path[i] # "/" })
      sep == LastPlace({ i \in 1..end : path[i] = "/" })
      dot == LastPlace({ i \in (sep + 1)..end : path[i] = "." })
      base == SubSeq(path, sep + 1, end)
      hasExt == dot > sep + 1 /\ base # <<".", ".">>
  IN [dir |-> IF sep > 1 THEN SubSeq(path, 1, sep - 1)
              ELSE IF Len(path) > 0 /\ path[1] = "/" THEN <<"/">>
              ELSE <<>>,
      name |-> IF hasExt THEN SubSeq(path, sep + 1, dot - 1) ELSE base,
      ext |-> IF hasExt THEN SubSeq(path, dot, end) ELSE <<>>]

\* filename.replace(/#|!|$|^|~|\s/gi, ''): the anchors $ and ^ match nothing
IsStripped(c) == c \in {"#", "!", "~", " "}
NotStripped(c) == ~IsStripped(c)
stripChars(str) == SelectSeq(str, NotStripped)

\* .replaceAll('\\', '/')
slashes(str) == [i \in DOMAIN str |-> IF str[i] = Backslash THEN "/" ELSE str[i]]

\* slug.endsWith('/index')
EndsWithIndex(slug) ==
  Len(slug) >= 2 /\ slug[Len(slug) - 1] = "/" /\ slug[Len(slug)] = "index"

\* String.prototype.trim
trim(str) ==
  LET solid == { i \in DOMAIN str : str[i] # " " }
  IN IF solid = {} THEN <<>>
     ELSE SubSeq(str, CHOOSE i \in solid : \A j \in solid : i <= j,
                      LastPlace(solid))

\* strReplacer(str, map) with no map
strReplacer(str) == str

\* lib slugify(filename) without a replacement map
slugifyName(filename) ==
  LET p == parse(lowerCase(filename))
      q == parse(lowerCase(slashes(stripChars(filename))))
      stem == (IF q.dir # <<>> THEN q.dir \o <<"/">> ELSE <<>>) \o q.name
      page == stem
              \o (IF stem = <<"index">> \/ EndsWithIndex(stem) THEN <<>>
                  ELSE <<"/", "index">>)
              \o <<".", "html">>
  IN trim(strReplacer(IF p.ext \in {<<".", "html">>, <<".", "md">>}
                      THEN page ELSE filename))

SlugInit == NoSite /\ lib \in Pending("slugify", NamesUpTo(MaxNameLen))

\* addContent calls slugify(filename); the slug is a filename in its turn
\* when slugify is handed its own output
CallSlugify ==
  /\ lib.fn = "slugify" /\ ~lib.done
  /\ LET x == IF lib.ret = <<>> THEN lib.arg ELSE lib.ret[Len(lib.ret)]
     IN lib' = [lib EXCEPT !.ret = Append(@, slugifyName(x)),
                           !.done = Len(lib.ret) = 1]
  /\ UNCHANGED siteVars

SlugNext == CallSlugify

SlugSpec == SlugInit /\ [][SlugNext]_vars

\* --------------------------------------------------------------------- mdHTML
MaxParts == 3          \* parts of a markdown text handed to mdHTML

\* const expressionPlaceholder, by name
expressionPlaceholder == "placeholder"

\* the parts markdown texts are put together from: text, a back-tick,
\* expressions in single-brace and doubled-brace form, an expression whose
\* body is or starts with an object literal, and an expression left open
MdParts ==
  { <<"a">>, <<Backtick>>,
    <<"$", "{", "a", "}">>,
    <<"!", "{", "a", "}">>,
    <<"$", "{", "{", "a", "}", "}">>,
    <<"!", "{", "{", "a", "}", "}">>,
    <<"$", "{", "{", "a", "}", ".", "a", "}">>,
    <<"$", "{", "{", "{", "a", "}", "}", "}">>,
    <<"$", "{", "a">> }

RECURSIVE MdTextsUpTo(_)
MdTextsUpTo(n) ==
  IF n = 0 THEN {<<>>}
  ELSE LET shorter == MdTextsUpTo(n - 1)
       IN  shorter \cup { t \o p : t \in shorter, p \in MdParts }

\* preparse.md.join(expressionPlaceholder)
RECURSIVE joinMd(_, _)
joinMd(md, k) ==
  IF k > Len(md) THEN <<>>
  ELSE md[k] \o (IF k < Len(md) THEN <<expressionPlaceholder>> ELSE <<>>)
       \o joinMd(md, k + 1)

\* the length of the run of back-ticks that starts at place i
RECURSIVE tickRun(_, _)
tickRun(str, i) ==
  IF i > Len(str) \/ str[i] # Backtick THEN 0 ELSE 1 + tickRun(str, i + 1)

\* the place from i on where a run of exactly n back-ticks starts, 0 when
\* there is none
RECURSIVE closingRun(_, _, _)
closingRun(str, i, n) ==
  IF i > Len(str) THEN 0
  ELSE IF str[i] # Backtick THEN closingRun(str, i + 1, n)
  ELSE IF tickRun(str, i) = n THEN i
  ELSE closingRun(str, i + tickRun(str, i), n)

\* md.render on one paragraph of the texts modelled: a run of back-ticks and
\* the next run of the same length enclose a code span, any other run is text
RECURSIVE inline(_, _)
inline(str, i) ==
  IF i > Len(str) THEN <<>>
  ELSE IF str[i] # Backtick THEN <<str[i]>> \o inline(str, i + 1)
  ELSE LET n == tickRun(str, i)
           j == closingRun(str, i + n, n)
       IN  IF j = 0 THEN SubSeq(str, i, i + n - 1) \o inline(str, i + n)
           ELSE <<"<code>">> \o SubSeq(str, i + n, j - 1) \o <<"</code>">>
                \o inline(str, j + n)

render(str) ==
  IF str = <<>> THEN <<>> ELSE <<"<p>">> \o inline(str, 1) \o <<"</p>">>

\* encodeExpressions(str): '!{' and '${' lose their marker to an entity, a
\* backslash and a back-tick become entities
encodeExpressions(str) ==
  [i \in DOMAIN str |->
     IF str[i] = "!" /\ i < Len(str) /\ str[i + 1] = "{" THEN "&#33;"
     ELSE IF str[i] = "$" /\ i < Len(str) /\ str[i + 1] = "{" THEN "&#36;"
     ELSE IF str[i] = Backslash THEN "&#92;"
     ELSE IF str[i] = Backtick THEN "&#96;"
     ELSE str[i]]

\* str.split(expressionPlaceholder)
RECURSIVE split(_, _, _)
split(str, i, cur) ==
  IF i > Len(str) THEN <<cur>>
  ELSE IF str[i] = expressionPlaceholder
       THEN <<cur>> \o split(str, i + 1, <<>>)
       ELSE split(str, i + 1, Append(cur, str[i]))

\* exp.slice(1,3) === '{{'
expDB(exp) == Len(exp) >= 3 /\ exp[2] = "{" /\ exp[3] = "{"

\* exp.replace(/^(\$|!)\{+(.+?)\}+$/s, '$1{$2}'): the braces after the marker
\* are matched greedily, the body lazily, and closing braces must run to the
\* end; the expression is left as it is when nothing matches
MatchesAt(exp, lead, body) ==
  /\ \A i \in 2..(1 + lead) : exp[i] = "{"
  /\ 1 + lead + body < Len(exp)
  /\ \A i \in (2 + lead + body)..Len(exp) : exp[i] = "}"

removeDoubleBrackets(exp) ==
  LET leads == { l \in 1..Len(exp) :
                   \E b \in 1..Len(exp) : MatchesAt(exp, l, b) }
      lead == CHOOSE l \in leads : \A m \in leads : m <= l
      bodies == { b \in 1..Len(exp) : MatchesAt(exp, lead, b) }
      body == CHOOSE b \in bodies : \A c \in bodies : b <= c
  IN IF exp[1] \notin {"$", "!"} \/ leads = {} THEN exp
     ELSE <<exp[1], "{">> \o SubSeq(exp, 2 + lead, 1 + lead + body) \o <<"}">>

\* Prism.highlight(code, Prism.languages.js) on the bodies modelled: every
\* punctuation character is wrapped in a span
RECURSIVE highlight(_, _)
highlight(code, i) ==
  IF i > Len(code) THEN <<>>
  ELSE (IF code[i] \in {"{", "}", "."}
        THEN <<"<span>", code[i], "</span>">> ELSE <<code[i]>>)
       \o highlight(code, i + 1)

\* acc.lastIndexOf(str), 0 when acc does not hold it
lastIndexOf(acc, str) ==
  LET places == { i \in DOMAIN acc : acc[i] = str }
  IN IF places = {} THEN 0 ELSE CHOOSE i \in places : \A j \in places : j <= i

\* acc.lastIndexOf('<code') > acc.lastIndexOf('</code')
inCode(acc) == lastIndexOf(acc, "<code>") > lastIndexOf(acc, "</code>")

\* the text the reduce callback adds after acc for the expression exp
inserted(acc, exp) ==
  LET e == IF expDB(exp) THEN removeDoubleBrackets(exp) ELSE exp
      at0 == IF e = <<>> THEN "undefined" ELSE e[1]
  IN IF inCode(acc) /\ ~expDB(exp)
     THEN encodeExpressions(<<at0, "{">>
                            \o highlight(SubSeq(e, 3, Len(e) - 1), 1)
                            \o <<"}">>)
     ELSE e

\* .reduce((acc, cur, idx) => ..., ''): the steps taken, each with acc after
\* `acc += cur`, the expression and the text added for it
RECURSIVE reduce(_, _, _, _, _)
reduce(segs, exp, idx, acc, steps) ==
  IF idx > Len(segs) THEN [out |-> acc, steps |-> steps]
  ELSE LET at == acc \o segs[idx]
           e == IF idx <= Len(exp) THEN exp[idx] ELSE <<>>
           ins == inserted(at, e)
       IN  reduce(segs, exp, idx + 1, at \o ins,
                  Append(steps, [acc |-> at, exp |-> e, ins |-> ins]))

\* lib mdHTML(str)
mdHTML(str) ==
  LET preparse == extractExpressions(str)
      html == encodeExpressions(render(joinMd(preparse.md, 1)))
  IN reduce(split(html, 1, <<>>), preparse.exp, 1, <<>>, <<>>)

MdInit == NoSite /\ lib \in Pending("mdHTML", MdTextsUpTo(MaxParts))

\* addContent calls mdHTML(fData.content, this.config.markdownOptions)
CallMdHTML ==
  /\ lib.fn = "mdHTML" /\ ~lib.done
  /\ lib' = [lib EXCEPT !.ret = mdHTML(lib.arg), !.done = TRUE]
  /\ UNCHANGED siteVars

MdNext == CallMdHTML

MdSpec == MdInit /\ [][MdNext]_vars

\* ------------------------------------------------- the sort of the page lists
MaxList == 3           \* pages in one list of tacs.dir or tacs.tag

\* pages of the content map that tie in priority or in date
Pages ==
  { [slug |-> "a", priority |-> 1, date |-> 0],
    [slug |-> "b", priority |-> 1, date |-> 1],
    [slug |-> "c", priority |-> 0, date |-> 1],
    [slug |-> "d", priority |-> 0, date |-> 0] }

\* the lists the initial pass of #render can collect: pages in the order of
\* the content map, none twice
ListsUpTo(n) ==
  { list \in UNION { [1..k -> Pages] : k \in 0..n } :
      \A i, j \in DOMAIN list : i # j => list[i] # list[j] }

\* config.dirPages or config.tagPages: sortBy and sortDir as they are set
SortConfigs ==
  { [of |-> of, sortBy |-> sB, sortDir |-> sD, list |-> list] :
      of \in {"dir", "tag"}, sB \in {"priority", "date"}, sD \in {-1, 1},
      list \in ListsUpTo(MaxList) }

\* a[ sB ]
Field(a, sB) == IF sB = "priority" THEN a.priority ELSE a.date

\* the comparator of the directory lists: the factor, then the date
dirPagesCompare(sB, sD, a, b) ==
  LET s == sD * (Field(a, sB) - Field(b, sB))
  IN IF s = 0 THEN b.date - a.date ELSE s

\* the comparator of the tag lists: sD * (a[ sB ] - b[ sB ])
tagPagesCompare(sB, sD, a, b) == sD * (Field(a, sB) - Field(b, sB))

compareWith(cfg, a, b) ==
  IF cfg.of = "dir" THEN dirPagesCompare(cfg.sortBy, cfg.sortDir, a, b)
  ELSE tagPagesCompare(cfg.sortBy, cfg.sortDir, a, b)

\* list.sort(comparator), stable
RECURSIVE insertWith(_, _, _, _)
insertWith(list, x, i, cfg) ==
  IF i > Len(list) THEN Append(list, x)
  ELSE IF compareWith(cfg, list[i], x) > 0
       THEN SubSeq(list, 1, i - 1) \o <<x>> \o SubSeq(list, i, Len(list))
       ELSE insertWith(list, x, i + 1, cfg)

RECURSIVE sortWith(_, _, _, _)
sortWith(list, i, acc, cfg) ==
  IF i > Len(list) THEN acc
  ELSE sortWith(list, i + 1, insertWith(acc, list[i], 1, cfg), cfg)

\* null as the value of postnext or postback, which hold a page by its slug
NoPage == "null"

\* data.postnext = a > 0 ? list[a - 1] : null, index a counted from 0
postnext(list) ==
  [s \in { list[i].slug : i \in DOMAIN list } |->
     LET a == CHOOSE i \in DOMAIN list : list[i].slug = s
     IN IF a > 1 THEN list[a - 1].slug ELSE NoPage]

\* data.postback = a < list.length - 1 ? list[a + 1] : null
postback(list) ==
  [s \in { list[i].slug : i \in DOMAIN list } |->
     LET a == CHOOSE i \in DOMAIN list : list[i].slug = s
     IN IF a < Len(list) THEN list[a + 1].slug ELSE NoPage]

\* the tag lists are sorted and nothing else; no page of a tag list is given
\* a postnext or a postback
NotLinked == [s \in {} |-> NoPage]

SortInit == NoSite /\ lib \in Pending("sort", SortConfigs)

\* #render sorts one list of tacs.dir, and links its pages, or one list of
\* tacs.tag
CallSort ==
  /\ lib.fn = "sort" /\ ~lib.done
  /\ LET list == sortWith(lib.arg.list, 1, <<>>, lib.arg)
     IN lib' = [lib EXCEPT
                  !.ret = [list |-> list,
                           postnext |-> IF lib.arg.of = "dir"
                                        THEN postnext(list) ELSE NotLinked,
                           postback |-> IF lib.arg.of = "dir"
                                        THEN postback(list) ELSE NotLinked],
                  !.done = TRUE]
  /\ UNCHANGED siteVars

SortNext == CallSort

SortSpec == SortInit /\ [][SortNext]_vars

\* ------------------------------------------- navHeading: the contents list
\* The contents markup is a sequence of tags: "<ol>", "<li>", "</li>",
\* "</ol>", a line break, and "<a>" for the link of a heading, with the
\* "<nav>" element around them.  A heading is its level (2 to 6) and whether
\* its attributes hold the haOpt.nomenu marker.
MaxMenuHeadings == 3   \* headings of a document whose contents list is built

MenuHeadings == { [level |-> l, nomenu |-> n] : l \in 2..6, n \in BOOLEAN }

MenuDocsUpTo(n) == UNION { [1..k -> MenuHeadings] : k \in 0..n }

\* '<x>'.repeat(n)
RECURSIVE repeat(_, _)
repeat(str, n) == IF n <= 0 THEN <<>> ELSE str \o repeat(str, n - 1)

\* update contents navigation: what one heading adds to navHeading
navStep(h, clevel) ==
  repeat(<<"\n", "<ol>", "<li>", "\n">>, h.level - clevel)
  \o repeat(<<"\n", "</li>", "</ol>", "\n">>, clevel - h.level)
  \o (IF h.level <= clevel THEN <<"</li>", "\n", "<li>">> ELSE <<>>)
  \o (IF ~h.nomenu THEN <<"<a>">> ELSE <<>>)

RECURSIVE navFrom(_, _, _, _)
navFrom(doc, i, clevel, nav) ==
  IF i > Len(doc) THEN [nav |-> nav, clevel |-> clevel]
  ELSE navFrom(doc, i + 1, doc[i].level, nav \o navStep(doc[i], clevel))

\* the place of the tag that ends a match of /<open>\s*<close>/ begun at i,
\* 0 when there is no match at i
RECURSIVE matchEnd(_, _, _)
matchEnd(str, j, close) ==
  IF j > Len(str) THEN 0
  ELSE IF str[j] = close THEN j
  ELSE IF str[j] = "\n" THEN matchEnd(str, j + 1, close)
  ELSE 0

\* str.replace(/<open>\s*<close>/ig, ''): one pass from left to right
RECURSIVE prune(_, _, _, _)
prune(str, i, open, close) ==
  IF i > Len(str) THEN <<>>
  ELSE LET end == IF str[i] = open THEN matchEnd(str, i + 1, close) ELSE 0
       IN IF end > 0 THEN prune(str, end + 1, open, close)
          ELSE <<str[i]>> \o prune(str, i + 1, open, close)

\* .replace(/<li>\s*<\/li>/ig, '').replace(/<ol>\s*<\/ol>/ig, '')
pruneEmpty(str) == prune(prune(str, 1, "<li>", "</li>"), 1, "<ol>", "</ol>")

\* navHeading(str, haOpt).navHeading
contents(doc) ==
  LET r == navFrom(doc, 1, 1, <<>>)
  IN IF r.nav = <<>> THEN <<>>
     ELSE pruneEmpty(<<"<nav>">> \o r.nav \o <<"\n">>
                     \o repeat(<<"</li>", "</ol>">>, r.clevel - 1)
                     \o <<"\n", "</nav>">>)

MenuInit == NoSite /\ lib \in Pending("contents", MenuDocsUpTo(MaxMenuHeadings))

\* #render calls navHeading(content, this.config.headingAnchor) with a
\* nomenu marker configured, and takes nav.navHeading
CallContents ==
  /\ lib.fn = "contents" /\ ~lib.done
  /\ lib' = [lib EXCEPT !.ret = contents(lib.arg), !.done = TRUE]
  /\ UNCHANGED siteVars

MenuNext == CallContents

MenuSpec == MenuInit /\ [][MenuNext]_vars

\* ---------------------------------------------------- file writes that fail
\* mkdir or writeFile can reject (a full disk, a file where a directory is
\* needed, missing rights); Promise.allSettled waits for every write and
\* reports none of the rejections, and #render returns write.length.
WriteInputs ==
  ({F_a_md} \X {T_plain1, T_plain2}) \cup ({F_b_p} \X {T_plain1, T_bad, NoText})

WriteInit == Init /\ templateMap = [t \in TemplateNames |-> Plain(1)]

\* the files of the write list whose writeFile resolves
RECURSIVE WriteFilesBut(_, _, _, _)
WriteFilesBut(d, write, i, lost) ==
  IF i > Len(write) THEN d
  ELSE WriteFilesBut(IF write[i].slug \in lost THEN d
                     ELSE Put(d, join(buildDir, write[i].slug), write[i].content),
                     write, i + 1, lost)

\* `await this.#render()` when the writes of the slugs in lost reject
RenderWriteFails(lost) ==
  /\ LET r == Render(contentMap, templateMap, writeHash)
     IN /\ ~r.threw
        /\ lost # {}
        /\ lost \subseteq { r.write[i].slug : i \in DOMAIN r.write }
        /\ contentMap' = r.cm
        /\ writeHash' = r.writeHash
        /\ tacs' = [all |-> r.all, dir |-> r.dir, tag |-> r.tag, tagList |-> r.tagList]
        /\ disk' = WriteFilesBut(disk, r.write, 1, lost)
        /\ pass' = PassSummary(r, pass.n + 1, edits)
        /\ call' = [op |-> "render", fn |-> NoFile, def |-> FALSE, threw |-> FALSE]
  /\ prev' = pass
  /\ edits' = <<>>
  /\ calls' = calls + 1
  /\ UNCHANGED templateMap
  /\ UNCHANGED watchVars
  /\ UNCHANGED libVars

\* build() reaches `await this.#render()` and some write rejects
CallRenderWriteFails ==
  /\ calls < MaxCalls
  /\ \E lost \in SUBSET MapKeys(Aggregate(contentMap).all) :
       RenderWriteFails(lost)

WriteNext ==
  \/ \E in \in WriteInputs : CallAddContent(in[1], in[2])
  \/ CallRender
  \/ CallRenderWriteFails

WriteSpec == WriteInit /\ [][WriteNext]_vars

\* -------------------------------------------------------- the include cache
\* jstacs keeps one Map, templateMap, for the templates handed to
\* addTemplate and for the files templateGet reads for include().  Here
\* templateMap is that Map on the names of the partials and on the paths
\* include() looks them up by, templateDir holds the text of each file of
\* the template directory, and source holds what addTemplate was last called
\* with.  The texts hold no expression, so that parser(content) is content.
MaxIncludeCalls == 4   \* calls and file edits looked at in IncludeSpec

\* config.dir.template, copied to tacsConfig.dir.template by build()
dirTemplate == "src/template/"

PartialNames == {"nav.html", "foot.html"}
PartialTexts == {"x", "d", "e"}      \* texts handed to addTemplate
FileTexts == {"d", "e"}              \* texts of the files on disk
undefined == "undefined"
NoSuchFile == "ENOENT"
NeverCalled == "none"

\* join(tacsConfig.dir.template, file)
joinDir(dir, file) == dir \o file

IncludeKeys == PartialNames \cup { joinDir(dirTemplate, n) : n \in PartialNames }

IncludeInit ==
  /\ isDev = FALSE
  /\ contentMap = <<>>
  /\ templateMap = [k \in IncludeKeys |-> undefined]
  /\ writeHash = EmptyMap
  /\ disk = EmptyMap
  /\ tacs = [all |-> <<>>, dir |-> <<>>, tag |-> <<>>, tagList |-> <<>>]
  /\ calls = 0
  /\ call = NoCall
  /\ pass = NoPass
  /\ prev = NoPass
  /\ edits = <<>>
  /\ contentDir = EmptyMap
  /\ templateDir \in [PartialNames -> FileTexts \cup {NoSuchFile}]
  /\ content = {}
  /\ template = {}
  /\ timer = -1
  /\ reRendering = FALSE
  /\ runs = <<>>
  /\ failed = FALSE
  /\ clock = NoClock
  /\ source = [n \in PartialNames |-> [text |-> NeverCalled, removed |-> NeverCalled]]
  /\ lib = NoLib

includeRest == <<contentMap, writeHash, disk, tacs, call, pass, prev, edits,
                 contentDir, content, template, timer, reRendering, runs,
                 failed, clock, isDev>>

\* publican.addTemplate(filename, content): templateMap.delete(filename) or
\* templateMap.set(filename, content)
CallAddPartial(filename, text) ==
  /\ calls < MaxIncludeCalls
  /\ templateMap' = [templateMap EXCEPT ![filename] = text]
  /\ source' = [source EXCEPT ![filename] =
                  [text |-> text,
                   removed |-> IF text = undefined THEN source[filename].text
                               ELSE NeverCalled]]
  /\ lib' = [fn |-> "addTemplate", arg |-> filename, ret |-> text, done |-> TRUE]
  /\ calls' = calls + 1
  /\ UNCHANGED <<templateDir, includeRest>>

\* a file of the template directory is written or removed
EditPartial(filename, text) ==
  /\ calls < MaxIncludeCalls
  /\ templateDir[filename] # text
  /\ templateDir' = [templateDir EXCEPT ![filename] = text]
  /\ lib' = [fn |-> "edit", arg |-> filename, ret |-> text, done |-> TRUE]
  /\ calls' = calls + 1
  /\ UNCHANGED <<templateMap, source, includeRest>>

\* templateGet(file), the file being dir + name: the Map after the call and
\* the content returned; readFileSync throws when there is no such file
templateGetCached(tm, files, name) ==
  LET file == joinDir(dirTemplate, name)
      cached == tm[file]
  IN IF cached # undefined THEN [map |-> tm, content |-> cached]
     ELSE IF files[name] = NoSuchFile THEN [map |-> tm, content |-> "throws"]
     ELSE [map |-> [tm EXCEPT ![file] = files[name]], content |-> files[name]]

\* templateParse evaluates ${ include('name') }
CallIncludePartial(name) ==
  /\ calls < MaxIncludeCalls
  /\ LET r == templateGetCached(templateMap, templateDir, name)
     IN /\ templateMap' = r.map
        /\ lib' = [fn |-> "include", arg |-> name, ret |-> r.content, done |-> TRUE]
  /\ calls' = calls + 1
  /\ UNCHANGED <<templateDir, source, includeRest>>

IncludeNext ==
  \/ \E n \in PartialNames, t \in PartialTexts \cup {undefined} : CallAddPartial(n, t)
  \/ \E n \in PartialNames, t \in FileTexts \cup {NoSuchFile} : EditPartial(n, t)
  \/ \E n \in PartialNames : CallIncludePartial(n)

IncludeSpec == IncludeInit /\ [][IncludeNext]_vars

\* =================================================================== claims

\* C1: in watch mode at most one render pass (#render, from its start to the
\* settling of its last file write) is in progress at any time
RenderPasses == { i \in DOMAIN runs : runs[i].phase = "write" }
C1_OneRenderPass == Cardinality(RenderPasses) <= 1

\* a debounce expiry was turned away while a render pass is in progress, and
\* a further change is pending behind it
C1_Witness ==
  /\ RenderPasses # {}
  /\ clock.busy > 0
  /\ timer >= 0
  /\ content \cup template # {}

\* C2: notifications that each arrive before the debounce timer of the
\* previous one has fired (one burst) cause exactly one rebuild pass: one
\* drain and one #render, started no earlier than watchDebounce after the
\* last notification
C2_OneBurstOneRebuild ==
  clock.bursts = 1 =>
    /\ clock.drains <= 1
    /\ clock.renders <= 1
    /\ clock.drains = 1 => clock.drainAge >= WatchDebounce
    /\ (timer = -1 /\ runs = <<>>) => (clock.drains = 1 /\ clock.renders = 1)

\* a burst of two or more notifications, on both directories, was rebuilt
C2_Witness ==
  /\ clock.bursts = 1
  /\ clock.notified >= 2
  /\ clock.drains = 1
  /\ clock.renders = 1
  /\ runs = <<>>
  /\ clock.lastRead.kind = "template"
  /\ clock.lastRead.n >= 2

\* C3 as stated: a second render pass with no addContent / addTemplate call
\* since the previous pass writes no file
C3_SecondRenderWritesNothing ==
  (pass.n >= 2 /\ pass.since = <<>> /\ pass.ok) => pass.written = <<>>

\* position of slug in the render order of the aggregate
RenderPos(all, slug) ==
  LET order == allByPriority(all)
  IN CHOOSE n \in DOMAIN order : all[order[n]].k = slug

\* every read of a contentRendered is of a record rendered earlier in the pass
ReadsOnlyRendered(all) ==
  \A i \in DOMAIN all : \A j \in DOMAIN all[i].v.refs :
    LET target == all[i].v.refs[j]
    IN MapHas(all, target) => RenderPos(all, target) < RenderPos(all, all[i].k)

\* C3 amended: a second render pass with no addContent / addTemplate call
\* since the previous pass writes no file, provided every record whose
\* contentRendered is read is rendered earlier in the pass than its reader
C3_SecondRenderWritesNothingOrdered ==
  (pass.n >= 2 /\ pass.since = <<>> /\ pass.ok /\ ReadsOnlyRendered(tacs.all))
    => pass.written = <<>>

\* a second pass over records one of which reads another's contentRendered,
\* after a first pass that wrote files
C3_Witness ==
  /\ pass.n >= 2 /\ pass.since = <<>> /\ pass.ok
  /\ prev.written # <<>>
  /\ ReadsOnlyRendered(tacs.all)
  /\ \E i \in DOMAIN tacs.all :
       /\ tacs.all[i].v.refs # <<>>
       /\ MapHas(tacs.all, tacs.all[i].v.refs[1])
  /\ pass.written = <<>>

\* number of entries of the write list for a slug
Count(seq, x) == Cardinality({ i \in DOMAIN seq : seq[i] = x })

\* the latest two passes completed and exactly one addContent call, which
\* replaced the record of slug s and kept its slug, lies between them
OneReplaced(s) ==
  /\ pass.ok /\ prev.ok
  /\ Len(pass.since) = 1
  /\ pass.since[1].op = "addContent"
  /\ ~pass.since[1].threw
  /\ pass.since[1].before = s
  /\ pass.since[1].after = s
  /\ s \in DOMAIN prev.out /\ s \in DOMAIN pass.out
  /\ prev.src[s] = pass.since[1].fn
  /\ pass.src[s] = pass.since[1].fn

\* C4: when one record is replaced between two completed passes and its
\* output differs, its slug is written exactly once, and no slug whose output
\* equals that of the previous pass is written
C4_ChangedRecordWrittenOnce ==
  \A s \in DOMAIN pass.out :
    (OneReplaced(s) /\ prev.out[s] # pass.out[s]) =>
      /\ Count(pass.written, s) = 1
      /\ \A t \in DOMAIN pass.out \cap DOMAIN prev.out :
           pass.out[t] = prev.out[t] => Count(pass.written, t) = 0

\* a replaced record was written while another slug was rendered unchanged
C4_Witness ==
  \E s \in DOMAIN pass.out :
    /\ OneReplaced(s) /\ prev.out[s] # pass.out[s]
    /\ Count(pass.written, s) = 1
    /\ \E t \in DOMAIN pass.out \cap DOMAIN prev.out :
         t # s /\ pass.out[t] = prev.out[t]

\* C5: after a render pass of a rebuild has failed, the orchestrator is back
\* in the Idle state (#reRendering is false) once that rebuild has ended
C5_WatchSurvivesRenderError == (failed /\ runs = <<>>) => ~reRendering

\* the watcher is at rest: nothing pending, no timer, no rebuild running
Quiescent ==
  timer = -1 /\ runs = <<>> /\ content = {} /\ template = {} /\ ~failed

\* C6: no change stays pending: when the watcher has come to rest without a
\* render error, every notified path has been re-read and a render pass that
\* started after the re-read has completed
C6_EveryChangeRendered == Quiescent => clock.unrendered = {}

\* C7: a template read of a rebuild stores the text of the file of the
\* template directory under its name, and a template is removed only when
\* its file in the template directory cannot be read
C7_TemplateReRead ==
  [][ /\ (clock'.lastRead.n # clock.lastRead.n /\ clock'.lastRead.kind = "template")
         => \E n \in TemplateNames :
              /\ TemplateFile(n) = clock'.lastRead.fn
              /\ templateMap'[n] = templateDir[n]
      /\ \A n \in TemplateNames :
           (templateMap[n].def /\ ~templateMap'[n].def) => ~templateDir[n].def
    ]_vars

\* two published records of the content map have the same slug
DuplicateSlug(cm) ==
  \E i, j \in DOMAIN cm :
    /\ i # j
    /\ cm[i].v.slug = cm[j].v.slug
    /\ cm[i].v.publish # "false"
    /\ cm[j].v.publish # "false"

\* C8: a render pass over a content map in which two published records have
\* the same slug aborts with an error
C8_DuplicateSlugAborts ==
  (call.op = "render" /\ DuplicateSlug(contentMap)) => call.threw

\* C9: every file written lies inside the build root
C9_NoWriteOutsideBuild == \A p \in DOMAIN disk : InsideBuild(p)

\* the filename has a parent-directory segment
ParentSegment(fn) == \E i \in DOMAIN fn.dir : fn.dir[i] = ".."

\* C10: addContent with a filename that has a '..' reference throws and
\* leaves the content map as it was, for text and for undefined content
C10_ParentRefRejected ==
  [][ (calls' = calls + 1 /\ call'.op = "addContent" /\ ParentSegment(call'.fn))
        => (call'.threw /\ contentMap' = contentMap) ]_vars

\* addContent was called with a '..' filename and a text on a non-empty map
C10_Witness ==
  /\ call.op = "addContent"
  /\ ParentSegment(call.fn)
  /\ call.def
  /\ call.threw
  /\ contentMap # <<>>

\* C11: addTemplate with a filename that has a '..' reference throws and
\* leaves the Template Map as it was
C11_TemplateParentRefRejected ==
  [][ (calls' = calls + 1 /\ call'.op = "addTemplate" /\ ParentSegment(call'.fn))
        => (call'.threw /\ templateMap' = templateMap) ]_vars

\* the stored record of a filename, and whether it is published
Stored(f) == MapGet(contentMap, f)
Published(r) == r.publish # "false"

\* two records are the same but for what a render pass sets on them
SameRecord(a, b) ==
  [a EXCEPT !.contentRendered = Undefined] = [b EXCEPT !.contentRendered = Undefined]

\* the group lists of the aggregate hold only records stored now
ListsAreStored(groups) ==
  \A i \in DOMAIN groups : \A j \in DOMAIN groups[i].v :
    LET item == groups[i].v[j]
    IN /\ MapHas(contentMap, item.filename)
       /\ SameRecord(item, Stored(item.filename))
       /\ Published(item)

\* C12: after a render pass the aggregate holds exactly the records stored
\* at the start of the pass: every entry of tacs.all that comes from a file,
\* and every item of a list of tacs.dir or tacs.tag, is the published record
\* stored now under that filename, and every stored published record is the
\* entry of tacs.all under its slug
C12_AggregateIsStoredRecords ==
  call.op = "render" =>
    /\ \A i \in DOMAIN tacs.all :
         LET e == tacs.all[i].v
         IN e.src # NoFile =>
              /\ MapHas(contentMap, e.src)
              /\ Stored(e.src).slug = e.slug
              /\ Stored(e.src).body = e.body
              /\ Published(Stored(e.src))
    /\ ListsAreStored(tacs.dir)
    /\ ListsAreStored(tacs.tag)
    /\ \A i \in DOMAIN contentMap :
         Published(contentMap[i].v) =>
           /\ MapHas(tacs.all, contentMap[i].v.slug)
           /\ MapGet(tacs.all, contentMap[i].v.slug).src = contentMap[i].k

\* the directory lists, and positions in them, that hold the record of f
DirPlaces(f) ==
  { <<i, j>> \in (DOMAIN tacs.dir) \X (1..Len(contentMap)) :
      j \in DOMAIN tacs.dir[i].v /\ tacs.dir[i].v[j].filename = f }

\* the record is the index page of its directory
IsDirectoryIndex(r) == r.slug = <<r.directory, "index.html">>

\* the record is the home page of the site (its link is the root)
IsHomePage(r) == r.slug = <<"index.html">>

\* the record is in the list of its own directory and nowhere else
InOwnListOnly(f) ==
  /\ Cardinality(DirPlaces(f)) = 1
  /\ \A pl \in DirPlaces(f) : tacs.dir[pl[1]].k = Stored(f).directory

\* C13 as stated: after a render pass every published record is in exactly
\* one directory list, that of its directory, except the index page of its
\* directory, which is in none
C13_OneDirectoryList ==
  call.op = "render" =>
    \A i \in DOMAIN contentMap :
      LET f == contentMap[i].k
      IN Published(Stored(f)) =>
           IF IsDirectoryIndex(Stored(f)) THEN DirPlaces(f) = {}
           ELSE InOwnListOnly(f)

\* C13 amended: after a render pass every published record is in exactly one
\* directory list, that of its directory, except the index page of its
\* directory, the home page of the site and a record whose index value is
\* false, which are in none
C13_OneDirectoryListIndexed ==
  call.op = "render" =>
    \A i \in DOMAIN contentMap :
      LET f == contentMap[i].k
          r == Stored(f)
      IN Published(r) =>
           IF IsDirectoryIndex(r) \/ IsHomePage(r) \/ r.index = "false"
           THEN DirPlaces(f) = {}
           ELSE InOwnListOnly(f)

\* a pass over an index page (of a directory or of the site) and a record
\* with index false, both left out of every list, and a record that is in
\* the list of its directory
C13_Witness ==
  /\ call.op = "render"
  /\ \E f, h, k \in MapKeys(contentMap) :
       /\ Published(Stored(f))
       /\ IsDirectoryIndex(Stored(f)) \/ IsHomePage(Stored(f))
       /\ DirPlaces(f) = {}
       /\ Published(Stored(h)) /\ Stored(h).index = "false" /\ DirPlaces(h) = {}
       /\ Published(Stored(k)) /\ InOwnListOnly(k)

\* the publish value of the front matter holds the file back: draft, false
\* or a date after the reference time of the build
FutureDates == {"2999-01-01"}
Unpublished(text) == text.def /\ text.publish \in {"draft", "false"} \cup FutureDates

\* the record of f is in no list of the groups
InNoList(groups, f) ==
  \A i \in DOMAIN groups : \A j \in DOMAIN groups[i].v :
    groups[i].v[j].filename # f

\* C14: with development mode off, after a render pass a stored record
\* whose publish value is draft, false or a later date is in none of
\* tacs.all, tacs.dir and tacs.tag, is not rendered and not written; with
\* development mode on every stored record is published and in tacs.all
C14_DraftsHeldBack ==
  call.op = "render" =>
    \A f \in DOMAIN source :
      /\ (~isDev /\ Unpublished(source[f])) =>
           /\ \A i \in DOMAIN tacs.all : tacs.all[i].v.src # f
           /\ InNoList(tacs.dir, f)
           /\ InNoList(tacs.tag, f)
           /\ \A sl \in DOMAIN pass.src : pass.src[sl] # f
      /\ (isDev /\ source[f].def) =>
           /\ Published(Stored(f))
           /\ MapHas(tacs.all, Stored(f).slug)

\* with development mode off a pass held back a draft, a false and a
\* later-dated record next to a published one that it wrote
C14_Witness ==
  /\ call.op = "render" /\ ~call.threw /\ ~isDev
  /\ \E f \in DOMAIN source : Unpublished(source[f]) /\ source[f].publish = "draft"
  /\ \E f \in DOMAIN source : Unpublished(source[f]) /\ source[f].publish \in FutureDates
  /\ \E f \in DOMAIN source : source[f].def /\ ~Unpublished(source[f])
  /\ pass.written # <<>>

\* with development mode on a pass rendered a draft record and wrote it
C14_WitnessDev ==
  /\ call.op = "render" /\ ~call.threw /\ isDev
  /\ \E f \in DOMAIN source :
       /\ Unpublished(source[f])
       /\ \E i \in DOMAIN pass.written : pass.src[pass.written[i]] = f

\* the scanner was called on the text and has returned
Scanned == lib.fn = "extractExpressions" /\ lib.done

\* md[0] + exp[0] + md[1] + exp[1] + ... over all of md and exp
RECURSIVE Interleave(_, _, _)
Interleave(md, exp, k) ==
  IF k > Len(md) /\ k > Len(exp) THEN <<>>
  ELSE (IF k <= Len(md) THEN md[k] ELSE <<>>)
       \o (IF k <= Len(exp) THEN exp[k] ELSE <<>>)
       \o Interleave(md, exp, k + 1)

\* the brace depth after the first n characters of a text, -1 once a closing
\* brace had no opening one
RECURSIVE Depth(_, _)
Depth(text, n) ==
  IF n = 0 THEN 0
  ELSE LET d == Depth(text, n - 1)
       IN IF d < 0 THEN -1
          ELSE IF text[n] = "{" THEN d + 1
          ELSE IF text[n] = "}" THEN d - 1
          ELSE d

BalancedBraces(text) == Depth(text, Len(text)) = 0
NoQuotes(text) == \A n \in DOMAIN text : text[n] # "'"

\* the number of `${...}` and `!{...}` markers of a text
MarkerCount(text) ==
  Cardinality({ n \in DOMAIN text :
                  n < Len(text) /\ text[n] \in {"$", "!"} /\ text[n + 1] = "{" })

\* the parts returned reconstruct the text, one more segment than expressions
Reconstructs(text, r) ==
  /\ Len(r.md) = Len(r.exp) + 1
  /\ Interleave(r.md, r.exp, 1) = text

\* C17: for a text without quotes whose braces are balanced (so that every
\* marker is closed) extractExpressions returns one more segment than
\* expressions, and segments and expressions interleaved are the text
C17_ScanRoundTrip ==
  (Scanned /\ BalancedBraces(lib.arg) /\ NoQuotes(lib.arg))
    => Reconstructs(lib.arg, lib.ret)

\* a text with two expressions, one after the other, was scanned
C17_Witness ==
  /\ Scanned /\ BalancedBraces(lib.arg) /\ NoQuotes(lib.arg)
  /\ MarkerCount(lib.arg) = 2
  /\ Len(lib.ret.exp) = 2
  /\ Len(lib.ret.md) = 3

\* the marker at position n of a text without quotes has no closing brace
RECURSIVE ClosedAt(_, _, _)
ClosedAt(text, j, d) ==
  IF j > Len(text) THEN FALSE
  ELSE IF text[j] = "}" THEN (d = 1 \/ ClosedAt(text, j + 1, d - 1))
  ELSE IF text[j] = "{" THEN ClosedAt(text, j + 1, d + 1)
  ELSE ClosedAt(text, j + 1, d)

Unterminated(text) ==
  \E n \in DOMAIN text :
    /\ n < Len(text) /\ text[n] \in {"$", "!"} /\ text[n + 1] = "{"
    /\ ~ClosedAt(text, n + 2, 1)

\* C18: for a text (without quotes) that has a marker with no closing brace
\* extractExpressions still returns one more segment than expressions, and
\* segments and expressions interleaved are the text, nothing duplicated
C18_UnterminatedRoundTrip ==
  (Scanned /\ NoQuotes(lib.arg) /\ Unterminated(lib.arg))
    => Reconstructs(lib.arg, lib.ret)

\* navHeading was called on the document and has returned
NavDone == lib.fn = "navHeading" /\ lib.done

\* the ids that the headings of the document declare are pairwise distinct
DeclaredDistinct(doc) ==
  \A i, j \in DOMAIN doc :
    (i # j /\ doc[i].declared # <<>>) => doc[i].declared # doc[j].declared

\* C19: for a document whose declared ids are distinct, the ids of the
\* headings in the output of navHeading, generated or declared, are pairwise
\* distinct
C19_HeadingIdsDistinct ==
  (NavDone /\ DeclaredDistinct(lib.arg)) =>
    \A i, j \in DOMAIN lib.ret.ids : i # j => lib.ret.ids[i] # lib.ret.ids[j]

\* #paginate was called on the groups and has returned
Paginated == lib.fn = "paginate" /\ lib.done

\* the listing records of a group, in the order #paginate made them
PagesOf(pages, name) ==
  LET OfGroup(e) == e.v.name = name IN SelectSeq(pages, OfGroup)

\* ceil(n / s) and the smaller of two numbers
Ceil(n, s) == (n + s - 1) \div s
Least(a, b) == IF a <= b THEN a ELSE b

\* the slugs of the records of a list
Slugs(list) == [j \in DOMAIN list |-> list[j].slug]

\* the pages of the listing records one after the other
RECURSIVE Concat(_, _)
Concat(pages, i) ==
  IF i > Len(pages) THEN <<>> ELSE pages[i].v.page \o Concat(pages, i + 1)

\* C20: for a group of n > 0 records and a page size s, #paginate makes
\* ceil(n / s) listing records; page p holds the records at positions
\* p*s .. min(n, (p+1)*s) - 1 of the list, every page but the last holds s
\* records, and the pages in page order are the list
C20_PagesPartitionGroup ==
  Paginated =>
    \A g \in DOMAIN lib.arg.map :
      LET list == lib.arg.map[g].v
          n == Len(list)
          sz == lib.arg.size
          pages == PagesOf(lib.ret, lib.arg.map[g].k)
      IN n > 0 =>
           /\ Len(pages) = Ceil(n, sz)
           /\ \A p \in 0..(Len(pages) - 1) :
                /\ pages[p + 1].v.pagination.pageCurrent = p
                /\ pages[p + 1].v.page =
                     Slugs(SubSeq(list, p * sz + 1, Least(n, (p + 1) * sz)))
                /\ p < Len(pages) - 1 => Len(pages[p + 1].v.page) = sz
           /\ Concat(pages, 1) = Slugs(list)

\* a group of 7 records was paginated by 3 into pages of 3, 3 and 1 records
C20_Witness ==
  /\ Paginated
  /\ lib.arg.size = 3
  /\ Len(lib.arg.map[1].v) = 7
  /\ LET pages == PagesOf(lib.ret, "d")
     IN /\ Len(pages) = 3
        /\ Len(pages[1].v.page) = 3
        /\ Len(pages[2].v.page) = 3
        /\ Len(pages[3].v.page) = 1

Parsed == lib.fn = "templateParse" /\ lib.done

HasImmediate(text) ==
  \E i \in 1..(Len(text) - 1) : text[i] = "$" /\ text[i + 1] = "{"

\* the place of the brace that closes the expression opened before place j,
\* 0 when there is none
RECURSIVE closeFrom(_, _, _)
closeFrom(text, j, depth) ==
  IF j > Len(text) THEN 0
  ELSE IF text[j] = "{" THEN closeFrom(text, j + 1, depth + 1)
  ELSE IF text[j] = "}" THEN
    IF depth = 1 THEN j ELSE closeFrom(text, j + 1, depth - 1)
  ELSE closeFrom(text, j + 1, depth)

\* the '!{' expressions of a text, each from its marker to its closing brace
DeferredExpressions(text) ==
  { SubSeq(text, i, closeFrom(text, i + 2, 1)) :
      i \in { k \in 1..(Len(text) - 1) :
                /\ text[k] = "!" /\ text[k + 1] = "{"
                /\ closeFrom(text, k + 2, 1) > 0 } }

Occurs(part, text) ==
  \E k \in 0..(Len(text) - Len(part)) :
    SubSeq(text, k + 1, k + Len(part)) = part

\* C15: templateParse never evaluates a deferred expression: every '!{'
\* expression of the template is in the result as the same text with the
\* marker rewritten to '${', and a template with no '${' expression is
\* returned unchanged apart from that rewriting, whatever its text (backslashes
\* and backticks included)
C15_DeferredLeftAlone ==
  Parsed =>
    /\ ~HasImmediate(lib.arg) =>
         /\ ~lib.ret.threw
         /\ lib.ret.out = replaceMarker(lib.arg)
    /\ ~lib.ret.threw =>
         \A e \in DeferredExpressions(lib.arg) :
           Occurs(replaceMarker(e), lib.ret.out)

\* C16: templateParse ends for every template, self-recursive and mutually
\* recursive includes among them: the passes of its loop are bounded by the
\* cap, and a call in which maxIterations was counted down to the cap returns
\* the empty string
C16_CapGivesEmpty ==
  Parsed =>
    /\ lib.ret.passes <= maxIterations + 1
    /\ (lib.ret.maxIterations <= 0 /\ ~lib.ret.threw) => lib.ret.out = <<>>

\* C21: for every listing page p of a group with pageTotal pages: hrefBack is
\* null iff p = 0 and otherwise href[p-1]; hrefNext is null iff p is the last
\* page and otherwise href[p+1]; href[0] is the URL of the group with no
\* page number and href[i], i > 0, ends with the page number i; pageCurrent
\* is p and pageCurrent1 is p + 1
C21_PageLinks ==
  Paginated =>
    \A g \in DOMAIN lib.arg.map :
      LET name == lib.arg.map[g].k
          pages == PagesOf(lib.ret, name)
          pageTotal == Len(pages)
      IN \A p \in 0..(pageTotal - 1) :
           LET pg == pages[p + 1].v.pagination
           IN /\ pg.pageTotal = pageTotal
              /\ Len(pg.href) = pageTotal
              /\ (pg.hrefBack = <<"">>) <=> (p = 0)
              /\ p > 0 => pg.hrefBack = pg.href[p]
              /\ (pg.hrefNext = <<"">>) <=> (p = pageTotal - 1)
              /\ p < pageTotal - 1 => pg.hrefNext = pg.href[p + 2]
              /\ pg.href[1] = lib.arg.root \o <<name>>
              /\ \A i \in 1..(pageTotal - 1) :
                    pg.href[i + 1] = lib.arg.root \o <<name, ToString(i)>>
              /\ pg.pageCurrent = p
              /\ pg.pageCurrent1 = p + 1

\* a group was paginated into three pages: the middle page links back to the
\* URL of the group and on to page 2
C21_Witness ==
  /\ Paginated
  /\ LET pages == PagesOf(lib.ret, "d")
     IN /\ Len(pages) = 3
        /\ pages[2].v.pagination.hrefBack = lib.arg.root \o <<"d">>
        /\ pages[2].v.pagination.hrefNext = lib.arg.root \o <<"d", "2">>
        /\ pages[1].v.pagination.hrefBack = <<"">>
        /\ pages[3].v.pagination.hrefNext = <<"">>

\* C22: tags are deduplicated by normalized form: no stored record has two tag
\* entries with the same ref, each tag list of tacs.tag holds any record at
\* most once, and the count of a tag in tacs.tagList is the number of
\* distinct records that carry it
C22_TagsDeduped ==
  /\ \A i \in DOMAIN contentMap :
       LET tags == contentMap[i].v.tags
       IN \A j, k \in DOMAIN tags : j # k => tags[j].ref # tags[k].ref
  /\ \A g \in DOMAIN tacs.tag :
       LET list == tacs.tag[g].v
       IN \A a, b \in DOMAIN list :
            a # b => list[a].filename # list[b].filename
  /\ \A e \in DOMAIN tacs.tagList :
       \E g \in DOMAIN tacs.tag :
         /\ tacs.tag[g].k = tacs.tagList[e].ref
         /\ tacs.tagList[e].count =
              Cardinality({ tacs.tag[g].v[a].filename : a \in DOMAIN tacs.tag[g].v })

\* slugify was applied to a filename and then to its own output
Slugified == lib.fn = "slugify" /\ lib.done

\* C23: slugify is idempotent on its own output: for every filename x and no
\* replacement list slugify(slugify(x)) = slugify(x); a slug that ends in
\* '/index.html' or is 'index.html' is not extended
C23_SlugifyIdempotent ==
  Slugified => lib.ret[2] = lib.ret[1]

\* mdHTML was called on a markdown text and has returned
Converted == lib.fn = "mdHTML" /\ lib.done

\* the expression is written in doubled-brace form: the brace opened second
\* is closed last but one
DoubledForm(exp) ==
  /\ Len(exp) >= 6
  /\ exp[2] = "{" /\ exp[3] = "{"
  /\ closeFrom(exp, 4, 1) = Len(exp) - 1

\* the single-brace expression of an expression in doubled-brace form
SingleForm(exp) == <<exp[1], "{">> \o SubSeq(exp, 4, Len(exp) - 2) \o <<"}">>

\* the output so far holds a '<code' after its last '</code'
OpenCode(acc) ==
  \E i \in DOMAIN acc :
    acc[i] = "<code>" /\ \A j \in (i + 1)..Len(acc) : acc[j] # "</code>"

\* the text holds an expression marker that is live
Live(text) ==
  \E i \in 1..(Len(text) - 1) : text[i] \in {"$", "!"} /\ text[i + 1] = "{"

\* the entity of a marker
Entity(c) == IF c = "$" THEN "&#36;" ELSE "&#33;"

\* C24: in mdHTML each expression the scanner found is put back at its
\* place: one in doubled-brace form as the single-brace expression with its
\* marker live, inside a code element or not; a single-brace one inside an
\* open code element with its marker entity-escaped, so that it is not live;
\* a single-brace one outside any code element verbatim
C24_ExpressionsPutBack ==
  Converted =>
    LET exps == extractExpressions(lib.arg).exp
        steps == lib.ret.steps
    IN /\ Len(steps) > Len(exps)
       /\ \A k \in DOMAIN exps :
            LET s == steps[k]
            IN /\ s.exp = exps[k]
               /\ DoubledForm(s.exp) => s.ins = SingleForm(s.exp)
               /\ (~DoubledForm(s.exp) /\ OpenCode(s.acc)) =>
                    (s.ins[1] = Entity(s.exp[1]) /\ ~Live(s.ins))
               /\ (~DoubledForm(s.exp) /\ ~OpenCode(s.acc)) => s.ins = s.exp

\* C25: after the aggregation step every list of tacs.dir and of tacs.tag is
\* in the order of the configured sort field and direction, pages that tie in
\* the sort field are in the order of their dates, latest first, and in a
\* directory list postnext and postback of a page are the page before it and
\* the page after it, null at the two ends, so that a.postback = b exactly
\* when b.postnext = a
Sorted == lib.fn = "sort" /\ lib.done

InSortOrder(list, sB, sD) ==
  \A i, j \in DOMAIN list :
    i < j => sD * (Field(list[i], sB) - Field(list[j], sB)) <= 0

TiesByDate(list, sB) ==
  \A i, j \in DOMAIN list :
    (i < j /\ Field(list[i], sB) = Field(list[j], sB))
      => list[i].date >= list[j].date

Linked(r) ==
  LET list == r.list
      slugs == { list[i].slug : i \in DOMAIN list }
  IN /\ DOMAIN r.postnext = slugs /\ DOMAIN r.postback = slugs
     /\ \A i \in DOMAIN list :
          /\ r.postnext[list[i].slug]
               = (IF i = 1 THEN NoPage ELSE list[i - 1].slug)
          /\ r.postback[list[i].slug]
               = (IF i = Len(list) THEN NoPage ELSE list[i + 1].slug)
     /\ \A a, b \in slugs : r.postback[a] = b <=> r.postnext[b] = a

C25_ListsSorted ==
  Sorted => /\ InSortOrder(lib.ret.list, lib.arg.sortBy, lib.arg.sortDir)
            /\ TiesByDate(lib.ret.list, lib.arg.sortBy)
            /\ lib.arg.of = "dir" => Linked(lib.ret)

\* C26: within every render pass a record whose content refers to a
\* contentRendered is rendered only after every record without such a
\* reference, the records of content files first and the listing records
\* after them, has been rendered and has its contentRendered of that pass
Rendered == pass.n >= 1

Refers(slug) == MapGet(tacs.all, slug).refs # <<>>

\* a record synthesized by #paginate that no content file stands behind
Listing(slug) ==
  MapGet(tacs.all, slug).fresh /\ MapGet(tacs.all, slug).src = NoFile

\* n is a position of the render order at which a referring record stands
AfterAllOthers(n) ==
  /\ \A s \in MapKeys(tacs.all) :
       ~Refers(s) => \E m \in 1..(n - 1) : pass.order[m] = s
  /\ \A m \in 1..(n - 1) :
       ~Refers(pass.order[m])
         => MapGet(tacs.all, pass.order[m]).contentRendered # Undefined

\* what a referring record read of a record without a reference is what that
\* record was rendered to in this pass
ReadThisPass(slug) ==
  LET e == MapGet(tacs.all, slug)
  IN \A j \in DOMAIN e.refs :
       (MapHas(tacs.all, e.refs[j]) /\ ~Refers(e.refs[j]))
         => /\ e.contentRendered # Undefined
            /\ e.contentRendered[2][j]
                 = <<MapGet(tacs.all, e.refs[j]).body, <<>>>>

C26_ReferencesRenderLast ==
  Rendered =>
    /\ \A n \in DOMAIN pass.order :
         Refers(pass.order[n]) => AfterAllOthers(n) /\ ReadThisPass(pass.order[n])
    /\ \A n, m \in DOMAIN pass.order :
         (~Refers(pass.order[n]) /\ ~Refers(pass.order[m])
            /\ ~Listing(pass.order[n]) /\ Listing(pass.order[m])) => n < m

\* a pass in which a record that refers to a contentRendered stands before
\* the record it reads in the content map, with a listing record between them
\* in the render order
C26_Witness ==
  /\ Rendered /\ pass.ok
  /\ \E n, m, l \in DOMAIN pass.order :
       /\ m < l /\ l < n
       /\ Refers(pass.order[n]) /\ ~Refers(pass.order[m])
       /\ Listing(pass.order[l])
       /\ pass.order[m] \in { MapGet(tacs.all, pass.order[n]).refs[j] :
                                j \in DOMAIN MapGet(tacs.all, pass.order[n]).refs }
       /\ MapIdx(tacs.all, pass.order[n]) < MapIdx(tacs.all, pass.order[m])

\* C27: for every sequence of headings of levels 2 to 6, any of them marked
\* to be left out of the contents list, the contents markup of navHeading
\* closes every list and list item it opens, in nesting order, and holds no
\* list item and no list that is empty or holds white space only
ContentsBuilt == lib.fn = "contents" /\ lib.done

\* the elements left open after the tags of str from i on, innermost last;
\* <<"unbalanced">> when a closing tag does not close the innermost element
RECURSIVE openAfter(_, _, _)
openAfter(str, i, stack) ==
  IF i > Len(str) THEN stack
  ELSE IF str[i] \in {"<ol>", "<li>", "<nav>"}
       THEN openAfter(str, i + 1, Append(stack, str[i]))
  ELSE IF str[i] \in {"</ol>", "</li>", "</nav>"}
       THEN LET opener == IF str[i] = "</ol>" THEN "<ol>"
                          ELSE IF str[i] = "</li>" THEN "<li>" ELSE "<nav>"
            IN IF stack # <<>> /\ stack[Len(stack)] = opener
               THEN openAfter(str, i + 1, SubSeq(stack, 1, Len(stack) - 1))
               ELSE <<"unbalanced">>
  ELSE openAfter(str, i + 1, stack)

Balanced(str) == openAfter(str, 1, <<>>) = <<>>

NoEmpty(str, open, close) ==
  \A i \in DOMAIN str : str[i] = open => matchEnd(str, i + 1, close) = 0

C27_ContentsBalancedNoEmpty ==
  ContentsBuilt => /\ Balanced(lib.ret)
                   /\ NoEmpty(lib.ret, "<li>", "</li>")
                   /\ NoEmpty(lib.ret, "<ol>", "</ol>")

\* C28: the write-hash cache never runs ahead of the build directory: after
\* any render pass, the file of every slug that has a hash in #writeHash is
\* in the build directory and its content has that hash; so when the write
\* of a file fails in a pass, the next pass with the same inputs writes the
\* file again
HashOnDisk(slug) ==
  /\ join(buildDir, slug) \in DOMAIN disk
  /\ strHash(disk[join(buildDir, slug)]) = writeHash[slug]

C28_WriteHashNotAhead ==
  pass.n >= 1 => \A slug \in DOMAIN writeHash : HashOnDisk(slug)

\* C28, the case of the failed write alone: after a pass that completes with
\* the inputs of the completed pass before it, every file whose hash is
\* recorded is in the build directory
C28_FailedWriteRepeated ==
  (pass.n >= 2 /\ pass.ok /\ prev.ok /\ pass.since = <<>>)
    => \A slug \in DOMAIN writeHash : HashOnDisk(slug)

\* C29: the rebuild loop loses no enqueued change: a pass takes the pending
\* content and template paths and clears both sets in one step; every path
\* it took is passed to addContent or addTemplate in that pass; a path
\* notified after that stays pending with the debounce timer armed; and a
\* pass that finds pending paths when its reads have settled does not
\* render, the render being left to the following pass
Pending29 == content # {} \/ template # {}

\* the timeout fires and reRender goes past `already rendering`
Snapshot == timer = 0 /\ timer' = -1

SnapshotClears ==
  Snapshot =>
    /\ content' = {} /\ template' = {}
    /\ Pending29 => /\ Len(runs') = Len(runs) + 1
                    /\ runs'[Len(runs')].cFiles = content
                    /\ runs'[Len(runs')].tFiles = template

Outstanding(rs, i, kind, f) ==
  /\ i \in DOMAIN rs
  /\ rs[i].phase = "read"
  /\ f \in (IF kind = "content" THEN rs[i].cFiles ELSE rs[i].tFiles)

\* the read of f settled in this step and its text went to the map
ReadNow(kind, f) ==
  /\ clock'.lastRead.n = clock.lastRead.n + 1
  /\ clock'.lastRead.kind = kind
  /\ clock'.lastRead.fn = (IF kind = "content" THEN f ELSE TemplateFile(f))

SnapshotPassed ==
  \A i \in DOMAIN runs :
    /\ \A f \in runs[i].cFiles :
         \/ Outstanding(runs', i, "content", f)
         \/ /\ ReadNow("content", f)
            /\ MapHas(contentMap', f) <=> clock'.lastRead.text.def
    /\ \A n \in runs[i].tFiles :
         \/ Outstanding(runs', i, "template", n)
         \/ /\ ReadNow("template", n)
            /\ templateMap'[n] = clock'.lastRead.text

StaysPending ==
  \/ content \subseteq content' /\ template \subseteq template'
  \/ Snapshot

\* a render pass starts in this step
Renders == pass'.n # pass.n

\* the reads of a pass have settled and the pass ends without a render
LeftToNextPass ==
  /\ \E i \in DOMAIN runs : runs[i].phase = "read"
  /\ runs' = <<>>
  /\ ~Renders

NoRenderWhilePending ==
  /\ Renders => ~Pending29
  /\ (/\ Pending29 /\ ~Snapshot
      /\ \E i \in DOMAIN runs : runs[i].phase = "read"
      /\ \A j \in DOMAIN runs' : runs'[j].cFiles = {} /\ runs'[j].tFiles = {})
       => /\ LeftToNextPass
          /\ ~reRendering'
          /\ timer' >= 0
          /\ content' = content /\ template' = template

C29_NoChangeLost ==
  /\ [][SnapshotClears /\ SnapshotPassed /\ StaysPending /\ NoRenderWhilePending]_vars
  /\ [](Pending29 => timer >= 0)

\* a pass took a path, a change was notified while it read, and the pass
\* ended without a render: the new path is pending and the timer is armed
C29_Witness ==
  /\ clock.drains = 1 /\ clock.renders = 0
  /\ clock.lastRead.n >= 1
  /\ runs = <<>> /\ ~reRendering
  /\ content # {} /\ timer >= 0

\* C30: the include cache is coherent with the Template Map: after
\* addTemplate(name, text) every later include(name) renders that text, and
\* after addTemplate(name, undefined) no later include(name) returns the text
\* that was removed, unless the file on disk holds that text now; include
\* never serves a text older than the most recent addTemplate for the name
Included == lib.fn = "include" /\ lib.done

C30_IncludeCoherent ==
  Included =>
    LET last == source[lib.arg]
    IN /\ last.text \notin {NeverCalled, undefined} => lib.ret = last.text
       /\ (last.text = undefined /\ last.removed \notin {NeverCalled, undefined})
            => (lib.ret = last.removed => templateDir[lib.arg] = last.removed)

====
